---- MODULE Spec2Model ----
(***************************************************************************)
(* Model of the song_automations sync engine: the persistent match/review  *)
(* store (state/tracker.py), the match resolver and the reconciliation     *)
(* engine (sync/engine.py), the review actions of the web UI (web/app.py)  *)
(* and the playlist clients (clients/spotify.py, clients/soundcloud.py).   *)
(*                                                                         *)
(* Confidences are integer percentages (0.30 is 30).  Time is counted in   *)
(* days.  A platform id that Python holds as a str is the number plus      *)
(* StrTag, so that "5" and 5 differ as they do in Python.                  *)
(***************************************************************************)
EXTENDS Integers, Sequences, FiniteSets, TLC

VARIABLES
    folders,         \* ids of the user folders that exist in the catalog
    folderReleases,  \* folder id -> set of release ids in the folder
    search,          \* track -> search results of the platforms
    playlists,       \* destination -> listing of the live playlists
    mappings,        \* table folder_mappings
    matched,         \* table matched_tracks
    missing,         \* table missing_tracks
    snapshots,       \* table folder_releases
    now,             \* current day
    envBudget,       \* catalog, platform and review events still allowed
    run              \* observation of the last call (NoRun after other events)

vars == <<folders, folderReleases, search, playlists,
          mappings, matched, missing, snapshots, now, envBudget, run>>

-----------------------------------------------------------------------------
(* Bounds of the model *)

MaxEnv == 1
MaxNow == 30
MaxPlaylists == 3

(* Program constants *)

WANTLIST_FOLDER_ID == -1
MinConfidence == 30
HighConfidence == 50
HIGH_CONFIDENCE_THRESHOLD == 95
MaxAgeDays == 30
StrTag == 100

WANTLIST_FOLDER_NAME == "Wantlist"
PlaylistPrefix == "Discogs - "
Destinations == {"spotify", "soundcloud"}

-----------------------------------------------------------------------------
(* The catalog universe *)

UserFolderIds == {1, 2}
AllFolderIds == UserFolderIds \cup {WANTLIST_FOLDER_ID}
ReleaseIds == {1, 2}

\* A user folder may carry any name, also the name of the wantlist.
FolderName(id) ==
    IF id = WANTLIST_FOLDER_ID THEN WANTLIST_FOLDER_NAME
    ELSE IF id = 1 THEN "House" ELSE "Wantlist"

Folder(id) == [id |-> id, name |-> FolderName(id)]

\* Track(position, title, artist, ...) of a release; version_type is the
\* category parse_track_title gives the title, has_version whether a version
\* label was parsed.
Tracklist(release) ==
    IF release = 1
    THEN << [release |-> 1, position |-> "A1", title |-> "Energy Flow",
             version_type |-> "original", has_version |-> FALSE],
            [release |-> 1, position |-> "A2", title |-> "Energy Flow (Club Remix)",
             version_type |-> "remix", has_version |-> TRUE] >>
    ELSE << [release |-> 2, position |-> "A1", title |-> "Blue (Extended Mix)",
             version_type |-> "extended", has_version |-> TRUE] >>

Tracks == UNION { { Tracklist(r)[i] : i \in 1..Len(Tracklist(r)) } : r \in ReleaseIds }

-----------------------------------------------------------------------------
(* Platform ids *)

\* str(x): identity on a str, the decimal text of an int.
StrOf(x) == IF x >= StrTag THEN x ELSE x + StrTag

\* int(s) of the decimal text of an int.
IntOf(s) == IF s >= StrTag THEN s - StrTag ELSE s

\* Spotify ids are strings, SoundCloud ids are integers.
NativeId(dest, n) == IF dest = "spotify" THEN n + StrTag ELSE n

NoneId == 0

-----------------------------------------------------------------------------
(* Search results: candidates in the order the platform returns them, each  *)
(* with the total score score_candidate gives it for the track.  Candidate  *)
(* n is a recording; each platform has it under its own id.                 *)

Cand(n, score) == [n |-> n, score |-> score]

SearchOutcomes ==
    { [primary |-> << >>, fallback |-> << >>],
      [primary |-> << Cand(1, 40) >>, fallback |-> << >>],
      [primary |-> << Cand(2, 96), Cand(1, 99) >>, fallback |-> << >>],
      [primary |-> << Cand(2, 20) >>, fallback |-> << >>],
      [primary |-> << Cand(1, 50) >>, fallback |-> << >>],
      [primary |-> << >>, fallback |-> << Cand(2, 60) >>] }

\* search_query and fallback_query are the same text when no version was parsed.
SearchTracks(dest, track, useFallbackQuery) ==
    IF useFallbackQuery /\ track.has_version
    THEN [ i \in 1..Len(search[track].fallback) |->
             [id |-> NativeId(dest, search[track].fallback[i].n),
              score |-> search[track].fallback[i].score] ]
    ELSE [ i \in 1..Len(search[track].primary) |->
             [id |-> NativeId(dest, search[track].primary[i].n),
              score |-> search[track].primary[i].score] ]

\* The fallback allowed for every category.
ShouldUseFallbackAlways(track) == TRUE

\* matching/fuzzy.py: should_use_fallback
ShouldUseFallback(track) == track.version_type \notin {"remix", "dub", "edit"}

-----------------------------------------------------------------------------
(* state/tracker.py: table matched_tracks                                   *)

RowKey(row) == <<row.release, row.position, row.destination>>

TrackKey(track, dest) == <<track.release, track.position, dest>>

NoRow == [found |-> FALSE]

RowsOf(table, key) == { row \in table : RowKey(row) = key }

\* The comparison of the expiry test inverted.
NotExpiredInverted(row, today) == today - row.searched_at > MaxAgeDays

\* searched_at > datetime('now', '-30 days')
NotExpired(row, today) == today - row.searched_at < MaxAgeDays

\* The lookup of the revision that did not filter on the review status.
NotRejectedUnfiltered(row) == TRUE

\* review_status IS NULL OR review_status != 'rejected'
NotRejected(row) == row.review_status # "rejected"

GetCachedMatch(table, key, today) ==
    LET rows == { row \in RowsOf(table, key) :
                    NotExpired(row, today) /\ NotRejected(row) }
    IN  IF rows = {} THEN NoRow
        ELSE [found |-> TRUE, row |-> CHOOSE row \in rows : TRUE]

\* The insert of a row without the replacement of the row of the key.
SaveMatchedTrackNoReplace(table, key, track_id, confidence, today) ==
    table \cup
        { [release |-> key[1], position |-> key[2], destination |-> key[3],
           track_id |-> track_id, confidence |-> confidence,
           searched_at |-> today, review_status |-> "pending"] }

\* INSERT OR REPLACE: the row of the key is deleted and a new row inserted;
\* searched_at and review_status are not in the column list and take their
\* defaults, CURRENT_TIMESTAMP and 'pending'.
SaveMatchedTrack(table, key, track_id, confidence, today) ==
    (table \ RowsOf(table, key)) \cup
        { [release |-> key[1], position |-> key[2], destination |-> key[3],
           track_id |-> track_id, confidence |-> confidence,
           searched_at |-> today, review_status |-> "pending"] }

UpdateReviewStatus(table, key, status) ==
    { IF RowKey(row) = key THEN [row EXCEPT !.review_status = status] ELSE row :
        row \in table }

-----------------------------------------------------------------------------
(* state/tracker.py: tables missing_tracks, folder_mappings, folder_releases *)

\* The table without the record of the track.
SaveMissingTrackNot(table, release, folder_id, title, dest) == table

\* INSERT OR REPLACE on UNIQUE(discogs_release_id, track_name, destination).
SaveMissingTrack(table, release, folder_id, title, dest) ==
    { m \in table : ~(m.release = release /\ m.title = title /\ m.destination = dest) }
        \cup { [release |-> release, folder |-> folder_id, title |-> title,
                destination |-> dest] }

NoMapping == [found |-> FALSE]

GetFolderMapping(table, folder_id, dest) ==
    LET rows == { m \in table : m.folder_id = folder_id /\ m.destination = dest }
    IN  IF rows = {} THEN NoMapping
        ELSE [found |-> TRUE, row |-> CHOOSE m \in rows : TRUE]

GetAllFolderMappings(table, dest) == { m \in table : m.destination = dest }

\* INSERT OR IGNORE: the row of an existing key stays.
SaveFolderMappingIgnore(table, folder_id, folder_name, dest, playlist_id, playlist_name) ==
    IF \E m \in table : m.folder_id = folder_id /\ m.destination = dest
    THEN table
    ELSE table \cup { [folder_id |-> folder_id, folder_name |-> folder_name,
                       destination |-> dest, playlist_id |-> playlist_id,
                       playlist_name |-> playlist_name] }

\* INSERT OR REPLACE on UNIQUE(discogs_folder_id, destination).
SaveFolderMapping(table, folder_id, folder_name, dest, playlist_id, playlist_name) ==
    { m \in table : ~(m.folder_id = folder_id /\ m.destination = dest) }
        \cup { [folder_id |-> folder_id, folder_name |-> folder_name,
                destination |-> dest, playlist_id |-> playlist_id,
                playlist_name |-> playlist_name] }

\* The DELETE without the destination in its WHERE clause.
DeleteFolderMappingAnyDestination(table, folder_id, dest) ==
    { m \in table : m.folder_id # folder_id }

DeleteFolderMapping(table, folder_id, dest) ==
    { m \in table : ~(m.folder_id = folder_id /\ m.destination = dest) }

\* release_ids is the list of the ids of the releases fetched for the folder.
\* DELETE of the folder's rows, then a plain INSERT per id in one
\* transaction: a second row for the same id breaks UNIQUE(discogs_folder_id,
\* discogs_release_id), the IntegrityError leaves the call before
\* conn.commit() and the transaction, the DELETE included, is rolled back.
UpdateFolderReleases(table, folder_id, release_ids) ==
    IF \E i, j \in 1..Len(release_ids) : i # j /\ release_ids[i] = release_ids[j]
    THEN [raised |-> TRUE, table |-> table]
    ELSE [raised |-> FALSE,
          table |-> { s \in table : s.folder # folder_id }
                      \cup { [folder |-> folder_id, release |-> release_ids[i]] :
                               i \in 1..Len(release_ids) }]

-----------------------------------------------------------------------------
(* sync/engine.py: SyncEngine._find_track_match                             *)

NoBest == [id |-> NoneId, score |-> 0]

\* The scoring loop: a candidate replaces the best one when its score is
\* strictly higher, and the loop stops at the first such candidate that
\* reaches HIGH_CONFIDENCE_THRESHOLD.
RECURSIVE BestMatch(_, _, _)
BestMatch(cands, i, best) ==
    IF i > Len(cands) THEN best
    ELSE IF cands[i].score > best.score
         THEN IF cands[i].score >= HIGH_CONFIDENCE_THRESHOLD
              THEN cands[i]
              ELSE BestMatch(cands, i + 1, cands[i])
         ELSE BestMatch(cands, i + 1, best)

\* The test after the loop: best_match and best_match.confidence >=
\* min_confidence.
Accepts(best, min_confidence) ==
    best.id # NoneId /\ best.score >= min_confidence

\* "if cached and cached.destination_track_id".
IsCacheHit(cached) == cached.found /\ cached.row.track_id # NoneId

\* The part of _find_track_match after the cache lookup: the searches, the
\* scoring and the one save_matched_track.
SearchAndSave(table, track, dest, today) ==
    LET key == TrackKey(track, dest)
        primary == SearchTracks(dest, track, FALSE)
        useFallback == primary = << >> /\ ShouldUseFallback(track)
        results == IF useFallback THEN SearchTracks(dest, track, TRUE)
                   ELSE primary
        searches == IF useFallback THEN 2 ELSE 1
        best == BestMatch(results, 1, NoBest)
    IN  IF results = << >>
        THEN [matched |-> SaveMatchedTrack(table, key, NoneId, 0, today),
              found |-> FALSE, track_id |-> NoneId, confidence |-> 0,
              searches |-> searches, writes |-> 1, cache_hit |-> FALSE,
              results |-> results, primary_results |-> Len(primary),
              fallbacks |-> IF useFallback THEN 1 ELSE 0]
        ELSE IF Accepts(best, MinConfidence)
        THEN [matched |-> SaveMatchedTrack(table, key,
                             StrOf(best.id), best.score, today),
              found |-> TRUE, track_id |-> best.id,
              confidence |-> best.score,
              searches |-> searches, writes |-> 1, cache_hit |-> FALSE,
              results |-> results, primary_results |-> Len(primary),
              fallbacks |-> IF useFallback THEN 1 ELSE 0]
        ELSE [matched |-> SaveMatchedTrack(table, key, NoneId, best.score, today),
              found |-> FALSE, track_id |-> NoneId, confidence |-> 0,
              searches |-> searches, writes |-> 1, cache_hit |-> FALSE,
              results |-> results, primary_results |-> Len(primary),
              fallbacks |-> IF useFallback THEN 1 ELSE 0]

\* Result: the table after the call, whether a match is returned, its
\* track_id (the cached str on a cache hit, the platform's id otherwise) and
\* confidence, the number of search calls and table writes made, the search
\* results that were scored, the number of results of the primary query and
\* the number of fallback queries issued.
FindTrackMatch(table, track, dest, today) ==
    LET key == TrackKey(track, dest)
        cached == GetCachedMatch(table, key, today)
    IN  IF IsCacheHit(cached)
        THEN [matched |-> table, found |-> TRUE,
              track_id |-> cached.row.track_id,
              confidence |-> cached.row.confidence,
              searches |-> 0, writes |-> 0, cache_hit |-> TRUE,
              results |-> << >>, primary_results |-> 0, fallbacks |-> 0]
        ELSE SearchAndSave(table, track, dest, today)

-----------------------------------------------------------------------------
(* clients/spotify.py, clients/soundcloud.py: the playlist calls.  A        *)
(* playlist is [id, name, tracks]; tracks is the set of its track ids.      *)

Min(S) == CHOOSE x \in S : \A y \in S : x <= y

NoPlaylist == [found |-> FALSE]

\* The first playlist of the listing with exactly that name.
FindPlaylistByName(listing, name) ==
    LET idx == { i \in 1..Len(listing) : listing[i].name = name }
    IN  IF idx = {} THEN NoPlaylist
        ELSE [found |-> TRUE, playlist |-> listing[Min(idx)]]

\* The platform hands out an id no live playlist carries.
FreshPlaylistId(listing) ==
    Min({ i \in 1..(Len(listing) + 1) : \A j \in 1..Len(listing) : listing[j].id # i })

\* The platform lists the new playlist first or last.
CreatePlaylist(listing, id, name, newFirst) ==
    LET p == [id |-> id, name |-> name, tracks |-> {}]
    IN  IF newFirst THEN << p >> \o listing ELSE Append(listing, p)

DeletePlaylist(listing, id) == SelectSeq(listing, LAMBDA p : p.id # id)

GetPlaylistTracks(listing, id) ==
    UNION { listing[i].tracks : i \in { j \in 1..Len(listing) : listing[j].id = id } }

SeqRange(seq) == { seq[i] : i \in 1..Len(seq) }

AddTracksToPlaylist(listing, id, track_ids) ==
    [ i \in 1..Len(listing) |->
        IF listing[i].id = id
        THEN [listing[i] EXCEPT !.tracks = @ \cup SeqRange(track_ids)]
        ELSE listing[i] ]

RemoveTracksFromPlaylist(listing, id, track_ids) ==
    [ i \in 1..Len(listing) |->
        IF listing[i].id = id
        THEN [listing[i] EXCEPT !.tracks = @ \ SeqRange(track_ids)]
        ELSE listing[i] ]

-----------------------------------------------------------------------------
(* Failing calls.  A run has at most one fault: the search call for one     *)
(* track, the tracklist fetch of one release, or one PlaylistClient method  *)
(* called for one folder raises.  The engine has no try/except: the         *)
(* exception leaves process_release, comes out of future.result() in        *)
(* _sync_folder and leaves _sync.                                           *)

Fault(kind, release, position, folder, method) ==
    [kind |-> kind, release |-> release, position |-> position,
     folder |-> folder, method |-> method]

NoFault == Fault("none", 0, "", 0, "")

\* playlist_client.search_tracks raises for the track.
SearchRaises(fault, track) ==
    fault = Fault("search", track.release, track.position, 0, "")

\* self._discogs.get_release_tracks raises for the release.
TracksRaise(fault, release) == fault = Fault("tracks", release, "", 0, "")

\* The PlaylistClient method raises when it is called for the folder.
ClientRaises(fault, folder, method) == fault = Fault("client", 0, "", folder.id, method)

-----------------------------------------------------------------------------
(* sync/engine.py: SyncEngine._sync_folder, process_release                 *)

\* The elements of a set of numbers in increasing order.
SetToSeq(S) ==
    [ i \in 1..Cardinality(S) |->
        CHOOSE x \in S : Cardinality({ y \in S : y < x }) = i - 1 ]

Op(type, folder_name, playlist_name) ==
    [type |-> type, folder_name |-> folder_name, playlist_name |-> playlist_name,
     title |-> "", confidence |-> 0, flagged |-> FALSE]

\* The operations of the type in a SyncResult.operations.
OpCount(ops, type) == Cardinality({ i \in 1..Len(ops) : ops[i].type = type })

AddTrackOp(folder_name, playlist_name, track, confidence, flagged) ==
    [type |-> "add_track", folder_name |-> folder_name,
     playlist_name |-> playlist_name, title |-> track.title,
     confidence |-> confidence, flagged |-> flagged]

\* The flag of the revision that compared with "<=".
IsFlaggedInclusive(confidence) == confidence <= HighConfidence

\* flagged = match_result.confidence < self._settings.high_confidence
IsFlagged(confidence) == confidence < HighConfidence

\* What process_release does with the result of _find_track_match.
Resolution(acc, m, track, dest, missing_rows) ==
    [release |-> track.release, position |-> track.position,
     found |-> m.found, track_id |-> m.track_id, confidence |-> m.confidence,
     searches |-> m.searches, writes |-> m.writes, results |-> m.results,
     primary_results |-> m.primary_results, fallbacks |-> m.fallbacks,
     version_type |-> track.version_type,
     rows |-> RowsOf(m.matched, TrackKey(track, dest)),
     others_kept |-> m.matched \ RowsOf(m.matched, TrackKey(track, dest))
                        = acc.matched \ RowsOf(acc.matched, TrackKey(track, dest)),
     missing_records |-> { r \in missing_rows :
                             /\ r.release = track.release
                             /\ r.title = track.title
                             /\ r.destination = dest }]

ProcessTrackResult(acc, m, track, folder, dest, playlist_name) ==
    LET track_id == StrOf(m.track_id)
        flagged == IsFlagged(m.confidence)
        missing_rows == SaveMissingTrack(acc.missing_rows, track.release,
                                         folder.id, track.title, dest)
    IN  IF SearchRaises(acc.fault, track) /\ m.searches > 0
        THEN [acc EXCEPT !.raised = @ \cup {track.release}]
        ELSE IF m.found
        THEN [acc EXCEPT
                !.matched = m.matched,
                !.ids = @ \cup {track_id},
                !.adds = Append(@, <<track_id, m.confidence, flagged>>),
                !.ops = Append(@, AddTrackOp(folder.name, playlist_name, track,
                                             m.confidence, flagged)),
                !.flagged = @ + (IF flagged THEN 1 ELSE 0),
                !.searches = @ + m.searches,
                !.matches = @ \cup { [release |-> track.release,
                                      position |-> track.position,
                                      track_id |-> track_id,
                                      confidence |-> m.confidence,
                                      cache_hit |-> m.cache_hit] },
                !.log = Append(@, Resolution(acc, m, track, dest,
                                             acc.missing_rows))]
        ELSE [acc EXCEPT
                !.matched = m.matched,
                !.missing_rows = missing_rows,
                !.missing = @ + 1,
                !.searches = @ + m.searches,
                !.misses = @ \cup { [release |-> track.release,
                                     position |-> track.position] },
                !.log = Append(@, Resolution(acc, m, track, dest,
                                             missing_rows))]

\* One iteration of "for track in tracks" of process_release.  The result of
\* the call is a local variable: it is computed once and bound to m.
ProcessTrack(acc, track, folder, dest, playlist_name, today) ==
    CHOOSE result \in
        { ProcessTrackResult(acc, m, track, folder, dest, playlist_name) :
            m \in { FindTrackMatch(acc.matched, track, dest, today) } } : TRUE

RECURSIVE ProcessTracks(_, _, _, _, _, _, _)
ProcessTracks(acc, tracks, i, folder, dest, playlist_name, today) ==
    IF i > Len(tracks) THEN acc
    ELSE IF tracks[i].release \in acc.raised THEN acc
    ELSE CHOOSE result \in
            { ProcessTracks(next, tracks, i + 1, folder, dest, playlist_name, today) :
                next \in { ProcessTrack(acc, tracks[i], folder, dest,
                                        playlist_name, today) } } : TRUE

\* The releases of the folder one after the other, each worker's results
\* merged into the folder's.  A worker that raises stops; the executor's
\* shutdown waits for the other workers, which run to their end.
RECURSIVE ProcessReleases(_, _, _, _, _, _, _)
ProcessReleases(acc, releases, i, folder, dest, playlist_name, today) ==
    IF i > Len(releases) THEN acc
    ELSE CHOOSE result \in
            { ProcessReleases(next, releases, i + 1, folder, dest,
                              playlist_name, today) :
                next \in { IF TracksRaise(acc.fault, releases[i])
                           THEN [acc EXCEPT !.raised = @ \cup {releases[i]}]
                           ELSE ProcessTracks(acc, Tracklist(releases[i]), 1, folder,
                                              dest, playlist_name, today) } } : TRUE

Call(method, playlist_id, track_ids) ==
    [method |-> method, playlist |-> playlist_id, track_ids |-> track_ids]

SeqMapFirst(seq) == [ i \in 1..Len(seq) |-> seq[i][1] ]

\* The playlist-update block: each id is compared in the type the platform
\* uses, str for Spotify and int for SoundCloud.
IdsToAdd(dest, adds, current) ==
    IF dest = "spotify"
    THEN SeqMapFirst(SelectSeq(adds, LAMBDA a : a[1] \notin current))
    ELSE [ i \in 1..Len(SelectSeq(adds, LAMBDA a : IntOf(a[1]) \notin current)) |->
             IntOf(SelectSeq(adds, LAMBDA a : IntOf(a[1]) \notin current)[i][1]) ]

\* The SoundCloud branch comparing the int ids with the str ids.
IdsToRemoveNoInt(dest, desired, current) ==
    SetToSeq({ tid \in current : tid \notin desired })

IdsToRemove(dest, desired, current) ==
    IF dest = "spotify"
    THEN SetToSeq({ tid \in current : tid \notin desired })
    ELSE SetToSeq({ tid \in current : tid \notin { IntOf(d) : d \in desired } })

NoPlaylistId == 0

\* The creation and the mapping write not guarded by dry_run.
CreatesPlaylistAlways(create, dry_run) == create

\* "if not dry_run:" under "if playlist is None:".
CreatesPlaylist(create, dry_run) == create /\ ~dry_run

\* The playlist update not guarded by dry_run.
UpdatesPlaylistAlways(playlist_id, dry_run) == playlist_id # NoPlaylistId

\* "if playlist and not dry_run:".
UpdatesPlaylist(playlist_id, dry_run) == playlist_id # NoPlaylistId /\ ~dry_run

EmptyAcc(w) ==
    [matched |-> w.matched, missing_rows |-> w.missing_rows, ids |-> {},
     adds |-> << >>, ops |-> << >>, missing |-> 0, flagged |-> 0,
     searches |-> 0, matches |-> {}, misses |-> {}, log |-> << >>,
     fault |-> w.fault, raised |-> {}]

\* "if not releases: return result" with a platform lookup before it.
SkipFolderLookup(w, folder, dest) ==
    [w EXCEPT !.calls = Append(@, Call("find_playlist_by_name", NoPlaylistId, << >>))]

\* The world of a run: the four tables, the listing of the destination, and
\* the SyncResult, the client calls and the per-folder reports built so far.
\* "if not releases: return result", before any store or platform call; the
\* report reads the playlist the folder is mapped to.
SkipFolder(w, folder, dest) ==
    LET mapping == GetFolderMapping(w.mappings, folder.id, dest)
        live == IF mapping.found
                THEN FindPlaylistByName(w.listing, mapping.row.playlist_name)
                ELSE NoPlaylist
    IN  [w EXCEPT !.reports = Append(@,
            [folder |-> folder.id, skipped |-> TRUE,
             playlist |-> IF live.found THEN live.playlist.id ELSE NoPlaylistId,
             desired |-> {},
             before |-> IF live.found THEN live.playlist.tracks ELSE {},
             after |-> IF live.found THEN live.playlist.tracks ELSE {},
             matches |-> {}, misses |-> {}, resolutions |-> << >>,
             missing |-> 0, ids_to_add |-> << >>, ids_to_remove |-> << >>,
             added |-> 0, removed |-> 0, created |-> FALSE,
             mapped |-> mapping.found, live |-> live.found, create_ops |-> 0])]

\* The playlist lookup and creation and, with acc the merged results of
\* process_release, the playlist update and the snapshot write.
SyncFolderUpdate(w, acc, folder, dest, dry_run, newFirst) ==
    LET playlist_name == PlaylistPrefix \o folder.name
        mapping == GetFolderMapping(w.mappings, folder.id, dest)
        live == IF mapping.found
                THEN FindPlaylistByName(w.listing, mapping.row.playlist_name)
                ELSE NoPlaylist
        create == ~live.found
        newId == FreshPlaylistId(w.listing)
        playlist_id == IF live.found THEN live.playlist.id
                       ELSE IF dry_run THEN NoPlaylistId ELSE newId
        listing1 == IF CreatesPlaylist(create, dry_run)
                    THEN CreatePlaylist(w.listing, newId, playlist_name, newFirst)
                    ELSE w.listing
        mappings1 == IF CreatesPlaylist(create, dry_run)
                     THEN SaveFolderMapping(w.mappings, folder.id, folder.name, dest,
                                            StrOf(newId), playlist_name)
                     ELSE w.mappings
        ops1 == IF create THEN << Op("create_playlist", folder.name, playlist_name) >>
                ELSE << >>
        calls1 == (IF mapping.found
                   THEN << Call("find_playlist_by_name", NoPlaylistId, << >>) >>
                   ELSE << >>)
                  \o (IF CreatesPlaylist(create, dry_run)
                      THEN << Call("create_playlist", newId, << >>) >> ELSE << >>)
        update == UpdatesPlaylist(playlist_id, dry_run)
        current == GetPlaylistTracks(listing1, playlist_id)
        ids_to_add == IF update THEN IdsToAdd(dest, acc.adds, current) ELSE << >>
        ids_to_remove == IF update THEN IdsToRemove(dest, acc.ids, current) ELSE << >>
        listing2 == IF ids_to_add # << >>
                    THEN AddTracksToPlaylist(listing1, playlist_id, ids_to_add)
                    ELSE listing1
        listing3 == IF ids_to_remove # << >>
                    THEN RemoveTracksFromPlaylist(listing2, playlist_id, ids_to_remove)
                    ELSE listing2
        calls2 == (IF update THEN << Call("get_playlist_tracks", playlist_id, << >>) >>
                   ELSE << >>)
                  \o (IF ids_to_add # << >>
                      THEN << Call("add_tracks_to_playlist", playlist_id, ids_to_add) >>
                      ELSE << >>)
                  \o (IF ids_to_remove # << >>
                      THEN << Call("remove_tracks_from_playlist", playlist_id,
                                   ids_to_remove) >>
                      ELSE << >>)
        \* Where the folder's sync raises, if it does.
        raises ==
            IF \/ mapping.found /\ ClientRaises(w.fault, folder, "find_playlist_by_name")
               \/ CreatesPlaylist(create, dry_run)
                    /\ ClientRaises(w.fault, folder, "create_playlist")
            THEN "lookup"
            ELSE IF acc.raised # {} THEN "resolve"
            ELSE IF update /\ ClientRaises(w.fault, folder, "get_playlist_tracks")
            THEN "get"
            ELSE IF ids_to_add # << >>
                     /\ ClientRaises(w.fault, folder, "add_tracks_to_playlist")
            THEN "add"
            ELSE IF ids_to_remove # << >>
                     /\ ClientRaises(w.fault, folder, "remove_tracks_from_playlist")
            THEN "remove"
            ELSE "no"
    IN  IF raises = "lookup" THEN [w EXCEPT !.raised = TRUE]
        ELSE IF raises # "no"
        THEN [w EXCEPT
                !.raised = TRUE,
                !.mappings = mappings1,
                !.matched = acc.matched,
                !.missing_rows = acc.missing_rows,
                !.listing = IF raises = "remove" THEN listing2 ELSE listing1,
                !.calls = @ \o calls1]
        ELSE
        [w EXCEPT
            !.mappings = mappings1,
            !.matched = acc.matched,
            !.missing_rows = acc.missing_rows,
            !.snapshots = UpdateFolderReleases(@, folder.id,
                              SetToSeq(folderReleases[folder.id])).table,
            !.listing = listing3,
            !.ops = @ \o ops1 \o acc.ops,
            !.calls = @ \o calls1 \o calls2,
            !.created = @ + (IF create THEN 1 ELSE 0),
            !.added = @ + Len(ids_to_add),
            !.removed = @ + Len(ids_to_remove),
            !.missing = @ + acc.missing,
            !.flagged = @ + acc.flagged,
            !.searches = @ + acc.searches,
            !.reports = Append(@,
               [folder |-> folder.id, skipped |-> FALSE,
                playlist |-> playlist_id,
                desired |-> acc.ids,
                before |-> current,
                after |-> GetPlaylistTracks(listing3, playlist_id),
                matches |-> acc.matches, misses |-> acc.misses,
                resolutions |-> acc.log, missing |-> acc.missing,
                ids_to_add |-> ids_to_add, ids_to_remove |-> ids_to_remove,
                added |-> Len(ids_to_add), removed |-> Len(ids_to_remove),
                created |-> create,
                mapped |-> mapping.found, live |-> live.found,
                create_ops |-> OpCount(ops1 \o acc.ops, "create_playlist")])]

SyncFolder(w, folder, dest, dry_run, newFirst, today) ==
    IF w.raised THEN w
    ELSE IF folderReleases[folder.id] = {}
    THEN SkipFolder(w, folder, dest)
    ELSE CHOOSE result \in
            { SyncFolderUpdate(w, acc, folder, dest, dry_run, newFirst) :
                acc \in { ProcessReleases(EmptyAcc(w),
                                          SetToSeq(folderReleases[folder.id]), 1,
                                          folder, dest,
                                          PlaylistPrefix \o folder.name, today) } } : TRUE

\* What one "folder_result = self._sync_folder(...)" of _sync did: the client
\* calls and operations it added, the tables and counters it changed.  The run
\* keeps it for the folders whose release list was empty.
FolderEffect(w, next, folder) ==
    [folder |-> folder.id,
     reached |-> ~w.raised,
     empty |-> folderReleases[folder.id] = {},
     calls |-> Len(next.calls) - Len(w.calls),
     ops |-> Len(next.ops) - Len(w.ops),
     writes |-> { t \in {"mappings", "matched", "missing_rows", "snapshots"} :
                    next[t] # w[t] },
     listing_changed |-> next.listing # w.listing,
     counters |-> { c \in {"created", "deleted", "added", "removed", "missing",
                           "flagged"} : next[c] # w[c] }]

RECURSIVE SyncFolders(_, _, _, _, _, _, _)
SyncFolders(w, folderList, i, dest, dry_run, newFirst, today) ==
    IF i > Len(folderList) THEN w
    ELSE CHOOSE result \in
            { SyncFolders([next EXCEPT !.effects =
                               IF folderReleases[folderList[i].id] = {}
                               THEN Append(@, FolderEffect(w, next, folderList[i]))
                               ELSE @],
                          folderList, i + 1, dest, dry_run, newFirst, today) :
                next \in { SyncFolder(w, folderList[i], dest, dry_run,
                                      newFirst, today) } } : TRUE

-----------------------------------------------------------------------------
(* sync/engine.py: SyncEngine._cleanup_deleted_folders                      *)

IsDeletedFolder(mapping, current_folder_ids) ==
    mapping.folder_id \notin current_folder_ids

\* The iteration with delete_folder_mapping under "if playlist:".
CleanupMappingLive(w, mapping, dest, current_folder_ids, dry_run) ==
    LET live == FindPlaylistByName(w.listing, mapping.playlist_name)
    IN  IF ~IsDeletedFolder(mapping, current_folder_ids) THEN w
        ELSE [w EXCEPT
                !.ops = Append(@, Op("delete_playlist", mapping.folder_name,
                                     mapping.playlist_name)),
                !.deleted = @ + 1,
                !.deleted_folders = @ \cup {mapping.folder_id},
                !.calls = IF dry_run THEN @
                          ELSE @ \o << Call("find_playlist_by_name", NoPlaylistId, << >>) >>
                                 \o (IF live.found
                                     THEN << Call("delete_playlist", live.playlist.id,
                                                  << >>) >>
                                     ELSE << >>),
                !.listing = IF ~dry_run /\ live.found
                            THEN DeletePlaylist(@, live.playlist.id) ELSE @,
                !.mappings = IF ~dry_run /\ live.found
                             THEN DeleteFolderMapping(@, mapping.folder_id, dest)
                             ELSE @]

\* One iteration of "for mapping in mappings".
CleanupMapping(w, mapping, dest, current_folder_ids, dry_run) ==
    LET live == FindPlaylistByName(w.listing, mapping.playlist_name)
    IN  IF ~IsDeletedFolder(mapping, current_folder_ids) THEN w
        ELSE [w EXCEPT
                !.ops = Append(@, Op("delete_playlist", mapping.folder_name,
                                     mapping.playlist_name)),
                !.deleted = @ + 1,
                !.deleted_folders = @ \cup {mapping.folder_id},
                !.calls = IF dry_run THEN @
                          ELSE @ \o << Call("find_playlist_by_name", NoPlaylistId, << >>) >>
                                 \o (IF live.found
                                     THEN << Call("delete_playlist", live.playlist.id,
                                                  << >>) >>
                                     ELSE << >>),
                !.listing = IF ~dry_run /\ live.found
                            THEN DeletePlaylist(@, live.playlist.id) ELSE @,
                !.mappings = IF dry_run THEN @
                             ELSE DeleteFolderMapping(@, mapping.folder_id, dest)]

RECURSIVE CleanupMappings(_, _, _, _, _, _)
CleanupMappings(w, rows, i, dest, current_folder_ids, dry_run) ==
    IF i > Len(rows) THEN w
    ELSE CHOOSE result \in
            { CleanupMappings(next, rows, i + 1, dest, current_folder_ids, dry_run) :
                next \in { CleanupMapping(w, rows[i], dest, current_folder_ids,
                                          dry_run) } } : TRUE

\* The mappings of the destination in folder-id order.
MappingList(table, dest) ==
    LET ids == SetToSeq({ m.folder_id : m \in GetAllFolderMappings(table, dest) })
    IN  [ i \in 1..Len(ids) |-> GetFolderMapping(table, ids[i], dest).row ]

CleanupDeletedFolders(w, dest, current_folder_ids, dry_run) ==
    CleanupMappings(w, MappingList(w.mappings, dest), 1, dest,
                    current_folder_ids, dry_run)

-----------------------------------------------------------------------------
(* sync/engine.py: SyncEngine._sync                                         *)

\* get_folders(): the user's folders.
GetFolders == LET ids == SetToSeq(folders) IN [ i \in 1..Len(ids) |-> Folder(ids[i]) ]

\* folder_names is a set of names; the empty set is "no filter".
RunFolders(include_wantlist, folder_names) ==
    LET filtered == IF folder_names # {}
                    THEN SelectSeq(GetFolders, LAMBDA f : f.name \in folder_names)
                    ELSE GetFolders
    IN  IF include_wantlist
        THEN Append(filtered, Folder(WANTLIST_FOLDER_ID))
        ELSE filtered

World(dest) ==
    [mappings |-> mappings, matched |-> matched, missing_rows |-> missing,
     snapshots |-> snapshots, listing |-> playlists[dest],
     ops |-> << >>, calls |-> << >>, created |-> 0, deleted |-> 0, added |-> 0,
     removed |-> 0, missing |-> 0, flagged |-> 0, searches |-> 0,
     reports |-> << >>, effects |-> << >>, deleted_folders |-> {},
     fault |-> NoFault, raised |-> FALSE]

\* _sync in a run with the given fault.  An exception from _sync_folder
\* leaves _sync: the folders after it and the cleanup are not reached.
SyncRunWith(dest, include_wantlist, folder_names, dry_run, newFirst, fault) ==
    LET folderList == RunFolders(include_wantlist, folder_names)
    IN  CHOOSE result \in
            { IF w1.raised THEN w1
              ELSE CleanupDeletedFolders(w1, dest,
                       { folderList[i].id : i \in 1..Len(folderList) }, dry_run) :
                w1 \in { SyncFolders([World(dest) EXCEPT !.fault = fault],
                                     folderList, 1, dest, dry_run, newFirst, now) } } : TRUE

SyncRun(dest, include_wantlist, folder_names, dry_run, newFirst) ==
    SyncRunWith(dest, include_wantlist, folder_names, dry_run, newFirst, NoFault)

-----------------------------------------------------------------------------
(* The state machine *)

NoRun == [kind |-> "none"]

FolderNameFilters == { {}, {"House"} }

\* Spotify lists the playlists newest first, SoundCloud oldest first.
ListsNewFirst(dest) == dest = "spotify"

InitialSearch ==
    [ t \in Tracks |->
        IF t.release = 1 /\ t.position = "A1"
        THEN [primary |-> << Cand(1, 40) >>, fallback |-> << >>]
        ELSE IF t.release = 1
        THEN [primary |-> << >>, fallback |-> << >>]
        ELSE [primary |-> << >>, fallback |-> << Cand(2, 60) >>] ]

\* The store, the catalog and the platform before the first run.
InitStore ==
    /\ folders = UserFolderIds
    /\ folderReleases = [ f \in AllFolderIds |-> IF f = 2 THEN {2} ELSE {1} ]
    /\ search = InitialSearch
    /\ playlists = [ d \in Destinations |-> << >> ]
    /\ mappings = {}
    /\ matched = {}
    /\ missing = {}
    /\ snapshots = {}
    /\ now = 0
    /\ envBudget = MaxEnv

Init ==
    /\ InitStore
    /\ run = NoRun

\* sync_to_spotify / sync_to_soundcloud in a run with the given fault.  When
\* the run raises, the caller gets the exception and no SyncResult; what the
\* run wrote to the store and the platform before it raised stays.
SyncWith(dest, include_wantlist, folder_names, dry_run, fault) ==
    \E w \in {SyncRunWith(dest, include_wantlist, folder_names, dry_run,
                           ListsNewFirst(dest), fault)},
       twin \in {SyncRunWith(dest, include_wantlist, folder_names, ~dry_run,
                              ListsNewFirst(dest), fault)},
       folderList \in {RunFolders(include_wantlist, folder_names)} :
        /\ Len(w.listing) <= MaxPlaylists
        /\ mappings' = w.mappings
        /\ matched' = w.matched
        /\ missing' = w.missing_rows
        /\ snapshots' = w.snapshots
        /\ playlists' = [playlists EXCEPT ![dest] = w.listing]
        /\ run' = [kind |-> "sync", dest |-> dest, dry_run |-> dry_run,
                   include_wantlist |-> include_wantlist,
                   folder_names |-> folder_names,
                   ops |-> w.ops, calls |-> w.calls, reports |-> w.reports,
                   effects |-> w.effects,
                   created |-> w.created, deleted |-> w.deleted,
                   added |-> w.added, removed |-> w.removed,
                   missing |-> w.missing, flagged |-> w.flagged,
                   searches |-> w.searches,
                   deleted_folders |-> w.deleted_folders,
                   catalog_folders |-> folders \cup {WANTLIST_FOLDER_ID},
                   run_folders |-> { folderList[i].id : i \in 1..Len(folderList) },
                   fault |-> fault, raised |-> w.raised,
                   mappings_before |-> mappings,
                   snapshots_before |-> snapshots,
                   repeat |-> /\ run.kind = "sync"
                              /\ ~run.raised /\ ~w.raised
                              /\ ~run.dry_run /\ ~dry_run
                              /\ run.dest = dest
                              /\ run.include_wantlist = include_wantlist
                              /\ run.folder_names = folder_names,
                   twin_ops |-> twin.ops,
                   twin_matched |-> twin.matched,
                   twin_missing |-> twin.missing_rows,
                   twin_snapshots |-> twin.snapshots,
                   reviewed_before |-> { row \in matched : row.review_status # "pending" }]
        /\ UNCHANGED <<folders, folderReleases, search, now, envBudget>>

\* sync_to_spotify / sync_to_soundcloud, every call of the run succeeding.
Sync(dest, include_wantlist, folder_names, dry_run) ==
    SyncWith(dest, include_wantlist, folder_names, dry_run, NoFault)

\* web/app.py: approve_track
ApproveTrack(row) ==
    /\ envBudget > 0
    /\ envBudget' = envBudget - 1
    /\ row \in matched
    /\ matched' = UpdateReviewStatus(matched, RowKey(row), "approved")
    /\ run' = [kind |-> "approve_track", key |-> RowKey(row)]
    /\ UNCHANGED <<folders, folderReleases, search, playlists, mappings, missing,
                   snapshots, now>>

\* web/app.py: reject_track
RejectTrack(row) ==
    /\ envBudget > 0
    /\ envBudget' = envBudget - 1
    /\ row \in matched
    /\ matched' = UpdateReviewStatus(matched, RowKey(row), "rejected")
    /\ run' = [kind |-> "reject_track", key |-> RowKey(row)]
    /\ UNCHANGED <<folders, folderReleases, search, playlists, mappings, missing,
                   snapshots, now>>

\* Time passes.
Tick ==
    /\ now + (MaxAgeDays \div 2) <= MaxNow
    /\ now' = now + (MaxAgeDays \div 2)
    /\ run' = NoRun
    /\ UNCHANGED <<folders, folderReleases, search, playlists, mappings, matched,
                   missing, snapshots, envBudget>>

\* The user removes a folder from the collection or adds it (again).
FolderChange(f) ==
    /\ envBudget > 0
    /\ envBudget' = envBudget - 1
    /\ folders' = IF f \in folders THEN folders \ {f} ELSE folders \cup {f}
    /\ run' = NoRun
    /\ UNCHANGED <<folderReleases, search, playlists, mappings, matched, missing,
                   snapshots, now>>

\* The user puts a release into a folder or takes it out.
ReleaseChange(f, r) ==
    /\ envBudget > 0
    /\ envBudget' = envBudget - 1
    /\ folderReleases' = [folderReleases EXCEPT
                            ![f] = IF r \in @ THEN @ \ {r} ELSE @ \cup {r}]
    /\ run' = NoRun
    /\ UNCHANGED <<folders, search, playlists, mappings, matched, missing,
                   snapshots, now>>

\* The platform's search index changes.
SearchChange(track, outcome) ==
    /\ envBudget > 0
    /\ envBudget' = envBudget - 1
    /\ search[track] # outcome
    /\ search' = [search EXCEPT ![track] = outcome]
    /\ run' = NoRun
    /\ UNCHANGED <<folders, folderReleases, playlists, mappings, matched, missing,
                   snapshots, now>>

\* The user edits a playlist on the platform, out of band.
PlaylistChange(dest, i, n) ==
    /\ envBudget > 0
    /\ envBudget' = envBudget - 1
    /\ i \in 1..Len(playlists[dest])
    /\ playlists' = [playlists EXCEPT ![dest][i].tracks =
                        IF NativeId(dest, n) \in @ THEN @ \ {NativeId(dest, n)}
                        ELSE @ \cup {NativeId(dest, n)}]
    /\ run' = NoRun
    /\ UNCHANGED <<folders, folderReleases, search, mappings, matched, missing,
                   snapshots, now>>

\* A behaviour syncs to one destination: once the store or the platform holds
\* state of a destination, the runs are for that destination.
InUse(dest) ==
    \/ playlists[dest] # << >>
    \/ \E m \in mappings : m.destination = dest
    \/ \E row \in matched : row.destination = dest

ActiveDestinations ==
    IF \E d \in Destinations : InUse(d)
    THEN { d \in Destinations : InUse(d) }
    ELSE Destinations

\* The user deletes a playlist on the platform, out of band.
PlaylistDelete(dest, i) ==
    /\ envBudget > 0
    /\ envBudget' = envBudget - 1
    /\ i \in 1..Len(playlists[dest])
    /\ playlists' = [playlists EXCEPT
                        ![dest] = DeletePlaylist(@, playlists[dest][i].id)]
    /\ run' = NoRun
    /\ UNCHANGED <<folders, folderReleases, search, mappings, matched, missing,
                   snapshots, now>>

\* The reconciliation engine under catalog and playlist changes.
Next ==
    \/ \E dest \in ActiveDestinations, include_wantlist \in BOOLEAN,
          folder_names \in FolderNameFilters, dry_run \in BOOLEAN :
            Sync(dest, include_wantlist, folder_names, dry_run)
    \/ \E f \in UserFolderIds : FolderChange(f)
    \/ \E r \in ReleaseIds : ReleaseChange(1, r)
    \/ \E dest \in Destinations, i \in 1..MaxPlaylists, n \in 1..2 :
            PlaylistChange(dest, i, n)
    \/ \E dest \in Destinations, i \in 1..MaxPlaylists : PlaylistDelete(dest, i)

Spec == Init /\ [][Next]_vars

\* The resolver and the review store under review actions, search changes
\* and the passing of time; every run syncs all folders and the wantlist.
NextReview ==
    \/ \E dest \in ActiveDestinations, dry_run \in BOOLEAN :
            Sync(dest, TRUE, {}, dry_run)
    \/ \E row \in matched : ApproveTrack(row)
    \/ \E row \in matched : RejectTrack(row)
    \/ Tick
    \/ \E track \in Tracks, outcome \in SearchOutcomes :
            SearchChange(track, outcome)

SpecReview == Init /\ [][NextReview]_vars

ClientMethods == {"find_playlist_by_name", "create_playlist", "get_playlist_tracks",
                  "add_tracks_to_playlist", "remove_tracks_from_playlist"}

Faults ==
    { Fault("search", t.release, t.position, 0, "") : t \in Tracks }
        \cup { Fault("tracks", r, "", 0, "") : r \in ReleaseIds }
        \cup { Fault("client", 0, "", f, method) : f \in AllFolderIds,
                                                   method \in ClientMethods }

\* Sync runs of all folders and the wantlist in which one call may fail.
NextFault ==
    \/ \E dest \in ActiveDestinations, dry_run \in BOOLEAN :
            Sync(dest, TRUE, {}, dry_run)
    \/ \E dest \in ActiveDestinations, dry_run \in BOOLEAN, fault \in Faults :
            SyncWith(dest, TRUE, {}, dry_run, fault)

SpecFault == Init /\ [][NextFault]_vars

MaxReleases == 2

\* The lists of at most MaxReleases release ids.
ReleaseLists ==
    UNION { [1..n -> ReleaseIds] : n \in 0..MaxReleases }

\* state/tracker.py: update_folder_releases, called with any list of ids.
UpdateSnapshot(folder_id, release_ids) ==
    \E result \in { UpdateFolderReleases(snapshots, folder_id, release_ids) } :
        /\ snapshots' = result.table
        /\ run' = [kind |-> "update_folder_releases", folder |-> folder_id,
                   release_ids |-> release_ids, raised |-> result.raised,
                   snapshots_before |-> snapshots]
        /\ UNCHANGED <<folders, folderReleases, search, playlists, mappings,
                       matched, missing, now, envBudget>>

NextSnapshot ==
    \E folder_id \in AllFolderIds, release_ids \in ReleaseLists :
        UpdateSnapshot(folder_id, release_ids)

\* The snapshot table under calls of update_folder_releases.
SpecSnapshot == Init /\ [][NextSnapshot]_vars

------------------------------------------------------------------------------
(* Candidate scorer.  Scores are in ten-thousandths, the total score in
   millionths; the ratios of the fuzzy library are integers 0..100. *)

\* config.py: Settings, the default weights in hundredths.
ArtistWeight == 45
TitleWeight == 35
VerifiedWeight == 10
PopularityWeight == 10
VersionMatchBonus == 10

MaxOf(S) == CHOOSE x \in S : \A y \in S : y <= x

\* matching/fuzzy.py: calculate_artist_score.
CalculateArtistScore(ratio, token_ratio) ==
    MaxOf({ratio * 100, token_ratio * 100})

\* matching/fuzzy.py: calculate_title_score.
CalculateTitleScore(ratio, token_ratio, partial_ratio) ==
    MaxOf({ratio * 100, token_ratio * 95, partial_ratio * 90})

\* matching/fuzzy.py: normalize_popularity.
NormalizePopularity(value, max_value) ==
    IF max_value <= 0 THEN 0
    ELSE Min({10000, MaxOf({0, (value * 10000) \div max_value})})

\* matching/fuzzy.py: calculate_version_bonus; the substring tests are inputs.
CalculateVersionBonus(has_version, in_title, has_remixer, remixer_in_title) ==
    IF ~has_version THEN 0
    ELSE IF in_title THEN 10000
    ELSE IF has_remixer /\ remixer_in_title THEN 10000
    ELSE 0

\* matching/fuzzy.py: score_candidate, the weighted sum.
TotalScore(artist, title, verified, popularity, version, version_weight) ==
    artist * ArtistWeight + title * TitleWeight
        + verified * VerifiedWeight
        + popularity * PopularityWeight
        + version * version_weight

\* The ratios the fuzzy library returns, and the popularities of a platform.
Ratios == {0, 100}
Popularities == {0, 50, 100, 120}

\* sync/engine.py: _find_track_match, the scoring of one search result with
\* the weights of the settings; SoundCloud results are never verified.
ScoreCandidate(dest, c) ==
    /\ run = [kind |-> "search_result", dest |-> dest, candidate |-> c]
    /\ \E artist_score \in { CalculateArtistScore(c.artist_ratio,
                                                c.artist_token_ratio) },
       title_score \in { CalculateTitleScore(c.title_ratio,
                                              c.title_token_ratio,
                                              c.title_partial_ratio) },
       verified_bonus \in { IF dest = "spotify" /\ c.is_verified
                            THEN 10000 ELSE 0 },
       popularity_score \in { NormalizePopularity(c.popularity, 100) },
       version_bonus \in { CalculateVersionBonus(c.has_version,
                               c.version_in_title, c.has_remixer,
                               c.remixer_in_title) } :
        /\ run' = [kind |-> "score_candidate", dest |-> dest, candidate |-> c,
                   artist_score |-> artist_score,
                   title_score |-> title_score,
                   verified_bonus |-> verified_bonus,
                   popularity_score |-> popularity_score,
                   version_bonus |-> version_bonus,
                   confidence |-> TotalScore(artist_score, title_score,
                                      verified_bonus, popularity_score,
                                      version_bonus, VersionMatchBonus)]
        /\ UNCHANGED <<folders, folderReleases, search, playlists, mappings,
                       matched, missing, snapshots, now, envBudget>>

\* The search results as the scorer sees them: equal strings (ratio 100) have
\* every ratio 100.
ScoredCandidates ==
    { c \in [artist_ratio : Ratios, artist_token_ratio : Ratios,
             title_ratio : Ratios, title_token_ratio : Ratios,
             title_partial_ratio : Ratios, is_verified : BOOLEAN,
             popularity : Popularities, has_version : BOOLEAN,
             version_in_title : BOOLEAN, has_remixer : BOOLEAN,
             remixer_in_title : BOOLEAN] :
        /\ c.artist_ratio = 100 => c.artist_token_ratio = 100
        /\ c.title_ratio = 100 =>
              c.title_token_ratio = 100 /\ c.title_partial_ratio = 100 }

\* Any search result of either platform is to be scored.
InitScore ==
    /\ InitStore
    /\ run \in [kind : {"search_result"}, dest : Destinations,
                candidate : ScoredCandidates]

NextScore ==
    \E dest \in Destinations, c \in ScoredCandidates : ScoreCandidate(dest, c)

\* The scorer applied to any search result of either platform.
SpecScore == InitScore /\ [][NextScore]_vars

------------------------------------------------------------------------------
(* Review surface: manual correction.  A text is a sequence of pieces: the
   words "track" and "tracks", a digit, the separators, a space and a
   22-character alphanumeric id. *)

SpotifyId == "4uLU6hMCjMI75M1A2tKUQC"

Pieces == <<"track", "tracks", "1", "/", ":", " ", SpotifyId>>

PieceSet == { Pieces[i] : i \in 1..Len(Pieces) }

PieceIndex(piece) == CHOOSE i \in 1..Len(Pieces) : Pieces[i] = piece

\* The number of characters of a piece.
Width(piece) ==
    IF piece = "track" THEN 5
    ELSE IF piece = "tracks" THEN 6
    ELSE IF piece = SpotifyId THEN 22
    ELSE 1

\* [a-zA-Z0-9]
IsAlnum(piece) == piece \in {"track", "tracks", "1", SpotifyId}

\* \d
IsDigit(piece) == piece = "1"

\* [/:]
IsSeparator(piece) == piece \in {"/", ":"}

MaxUrlLen == 3

Urls == UNION { [1..n -> PieceSet] : n \in 0..MaxUrlLen }

RECURSIVE TextWidth(_)
TextWidth(text) ==
    IF text = << >> THEN 0 ELSE Width(Head(text)) + TextWidth(Tail(text))

\* str.strip()
Strip(text) ==
    LET inside == { i \in 1..Len(text) : text[i] # " " }
    IN  IF inside = {} THEN << >>
        ELSE SubSeq(text, Min(inside), MaxOf(inside))

\* The longest run of pieces from position i on that are all digits or, with
\* digits FALSE, all alphanumeric: the greedy group of the pattern.
Run(text, i, digits) ==
    LET stop == { j \in i..Len(text) :
                    IF digits THEN ~IsDigit(text[j]) ELSE ~IsAlnum(text[j]) }
    IN  SubSeq(text, i, IF stop = {} THEN Len(text) ELSE Min(stop) - 1)

\* The platform id a text denotes as the model's id of a string: the decimal
\* value of a text of digits, a code of the pieces otherwise.
RECURSIVE TextCode(_, _)
TextCode(text, digits) ==
    IF text = << >> THEN 0
    ELSE IF digits THEN 1 + 10 * TextCode(Tail(text), digits)
    ELSE PieceIndex(Head(text)) + 10 * TextCode(Tail(text), digits)

TextId(text) ==
    IF \A i \in 1..Len(text) : IsDigit(text[i])
    THEN StrOf(TextCode(text, TRUE))
    ELSE StrOf(TextCode(text, FALSE)) + 10 * StrTag

\* web/app.py: extract_track_id; NoneId for None.
ExtractTrackId(url, platform) ==
    LET text == Strip(url)
        spotifyAt == { i \in 1..Len(text) :
                         /\ text[i] = "track"
                         /\ i + 2 <= Len(text)
                         /\ IsSeparator(text[i + 1])
                         /\ IsAlnum(text[i + 2]) }
        soundcloudAt == { i \in 1..Len(text) :
                            /\ text[i] = "tracks"
                            /\ i + 2 <= Len(text)
                            /\ IsSeparator(text[i + 1])
                            /\ IsDigit(text[i + 2]) }
    IN  IF platform = "spotify"
        THEN IF spotifyAt # {}
             THEN TextId(Run(text, Min(spotifyAt) + 2, FALSE))
             ELSE IF (\A i \in 1..Len(text) : IsAlnum(text[i]))
                     /\ TextWidth(text) = 22
             THEN TextId(text)
             ELSE NoneId
        ELSE IF platform = "soundcloud"
        THEN IF soundcloudAt # {}
             THEN TextId(Run(text, Min(soundcloudAt) + 2, TRUE))
             ELSE IF text # << >> /\ \A i \in 1..Len(text) : IsDigit(text[i])
             THEN TextId(text)
             ELSE NoneId
        ELSE NoneId

\* state/tracker.py: update_matched_track
UpdateMatchedTrack(table, key, track_id, confidence, today) ==
    { IF RowKey(row) = key
      THEN [row EXCEPT !.track_id = track_id, !.confidence = confidence,
                       !.searched_at = today]
      ELSE row : row \in table }

\* The correction written without the test of the extracted id.
CorrectRowUnchecked(table, key, new_track_id, today) ==
    [status |-> 303,
     table |-> UpdateReviewStatus(
                   UpdateMatchedTrack(table, key, new_track_id, 100, today),
                   key, "approved")]

\* web/app.py: correct_track, from the extracted id on.
CorrectRow(table, key, new_track_id, today) ==
    IF new_track_id = NoneId
    THEN [status |-> 400, table |-> table]
    ELSE [status |-> 303,
          table |-> UpdateReviewStatus(
                        UpdateMatchedTrack(table, key, new_track_id, 100, today),
                        key, "approved")]

\* web/app.py: correct_track for the row of a key and the text of the form.
CorrectTrack(key, correct_url) ==
    /\ envBudget > 0
    /\ envBudget' = envBudget - 1
    /\ \E new_track_id \in { ExtractTrackId(correct_url, key[3]) } :
       \E result \in { IF RowsOf(matched, key) = {}
                       THEN [status |-> 404, table |-> matched]
                       ELSE CorrectRow(matched, key, new_track_id, now) } :
            /\ matched' = result.table
            /\ run' = [kind |-> "correct_track", key |-> key,
                       new_track_id |-> new_track_id,
                       status |-> result.status,
                       matched_before |-> matched]
    /\ UNCHANGED <<folders, folderReleases, search, playlists, mappings, missing,
                   snapshots, now>>

\* The results extract_track_id has on the texts of Urls.
ExtractedIds ==
    [ dest \in Destinations |-> { ExtractTrackId(url, dest) : url \in Urls } ]

\* One text for every result of extract_track_id: the handler depends on the
\* text through the extracted id only.
CorrectUrls ==
    [ dest \in Destinations |->
        { CHOOSE url \in Urls : ExtractTrackId(url, dest) = id :
            id \in ExtractedIds[dest] } ]

NextCorrect ==
    \/ \E dest \in ActiveDestinations : Sync(dest, TRUE, {}, FALSE)
    \/ \E t \in Tracks, dest \in ActiveDestinations :
       \E correct_url \in CorrectUrls[dest] :
            CorrectTrack(TrackKey(t, dest), correct_url)
    \/ Tick

\* Syncs and manual corrections in the review surface.
SpecCorrect == Init /\ [][NextCorrect]_vars

------------------------------------------------------------------------------
(* Text normalisation.  A text is a sequence of pieces: the article in two
   spellings, another word, a space, a hyphen and "<q>" for a typographic
   apostrophe. *)

TextPieces == {"the", "The", "a", " ", "-", "<q>"}

MaxTextLen == 5

Texts == UNION { [1..n -> TextPieces] : n \in 0..MaxTextLen }

\* str.lower()
Lower(text) ==
    [ i \in 1..Len(text) |-> IF text[i] = "The" THEN "the" ELSE text[i] ]

\* re.sub of the typographic apostrophes by the plain one.
Unquote(text) ==
    [ i \in 1..Len(text) |-> IF text[i] = "<q>" THEN "'" ELSE text[i] ]

\* re.sub(r"\s+", " ", text)
RECURSIVE CollapseSpaces(_)
CollapseSpaces(text) ==
    IF Len(text) < 2 THEN text
    ELSE IF text[1] = " " /\ text[2] = " " THEN CollapseSpaces(Tail(text))
    ELSE << text[1] >> \o CollapseSpaces(Tail(text))

\* The text without its leading spaces.
RECURSIVE SkipSpaces(_)
SkipSpaces(text) ==
    IF text # << >> /\ Head(text) = " " THEN SkipSpaces(Tail(text)) ELSE text

\* re.sub(r"^the\s+", "", text)
DropArticle(text) ==
    IF Len(text) >= 2 /\ text[1] = "the" /\ text[2] = " "
    THEN SkipSpaces(Tail(text))
    ELSE text

\* re.sub(r"\s*-\s*", " ", text): the matches from left to right.
RECURSIVE ReplaceHyphens(_)
ReplaceHyphens(text) ==
    IF text = << >> THEN << >>
    ELSE IF SkipSpaces(text) # << >> /\ Head(SkipSpaces(text)) = "-"
    THEN << " " >> \o ReplaceHyphens(SkipSpaces(Tail(SkipSpaces(text))))
    ELSE << Head(text) >> \o ReplaceHyphens(Tail(text))

\* matching/fuzzy.py: normalize_text
NormalizeTextOf(text) ==
    ReplaceHyphens(DropArticle(CollapseSpaces(Unquote(Strip(Lower(text))))))

\* normalize_text applied to a text and to its result.
NormalizeText(text) ==
    /\ run = [kind |-> "text", text |-> text]
    /\ \E once \in { NormalizeTextOf(text) } :
        /\ run' = [kind |-> "normalize_text", text |-> text, once |-> once,
                   twice |-> NormalizeTextOf(once)]
        /\ UNCHANGED <<folders, folderReleases, search, playlists, mappings,
                       matched, missing, snapshots, now, envBudget>>

\* Any text is to be normalised.
InitNormalize ==
    /\ InitStore
    /\ run \in [kind : {"text"}, text : Texts]

NextNormalize == \E text \in Texts : NormalizeText(text)

\* normalize_text on the texts of at most MaxTextLen pieces.
SpecNormalize == InitNormalize /\ [][NextNormalize]_vars

------------------------------------------------------------------------------
(* Review surface: the list of the flagged tracks *)

\* The destination argument None.
NoDestination == ""

\* The query without its filter on review_status.
GetFlaggedTracksAnyStatus(table, high_confidence, destination) ==
    { row \in table :
        /\ row.confidence < high_confidence
        /\ row.confidence > 0
        /\ row.track_id # NoneId
        /\ destination # NoDestination => row.destination = destination }

\* state/tracker.py: get_flagged_tracks, the rows of the result.
GetFlaggedTracks(table, high_confidence, destination) ==
    { row \in table :
        /\ row.confidence < high_confidence
        /\ row.confidence > 0
        /\ row.track_id # NoneId
        /\ row.review_status = "pending"
        /\ destination # NoDestination => row.destination = destination }

\* Syncs, search index changes and the reviews of the user.
NextFlagged ==
    \/ \E dest \in ActiveDestinations : Sync(dest, TRUE, {}, FALSE)
    \/ \E row \in matched : ApproveTrack(row)
    \/ \E row \in matched : RejectTrack(row)
    \/ \E t \in Tracks, dest \in ActiveDestinations :
       \E correct_url \in CorrectUrls[dest] :
            CorrectTrack(TrackKey(t, dest), correct_url)
    \/ \E track \in Tracks, outcome \in SearchOutcomes :
            SearchChange(track, outcome)

SpecFlagged == Init /\ [][NextFlagged]_vars

------------------------------------------------------------------------------
(* Cache clearing *)

\* The rows the DELETE selects, the filter on review_status left out.
ClearedRowsAll(table, destination, preserve_reviewed) ==
    { row \in table :
        destination # NoDestination => row.destination = destination }

\* state/tracker.py: clear_matched_tracks, the rows the DELETE selects.
ClearedRows(table, destination, preserve_reviewed) ==
    { row \in table :
        /\ destination # NoDestination => row.destination = destination
        /\ preserve_reviewed => row.review_status = "pending" }

\* state/tracker.py: clear_matched_tracks
ClearMatchedTracks(destination, preserve_reviewed) ==
    \E deleted \in { ClearedRows(matched, destination, preserve_reviewed) } :
        /\ matched' = matched \ deleted
        /\ run' = [kind |-> "clear_matched_tracks",
                   destination |-> destination,
                   preserve_reviewed |-> preserve_reviewed,
                   rowcount |-> Cardinality(deleted),
                   matched_before |-> matched]
        /\ UNCHANGED <<folders, folderReleases, search, playlists, mappings,
                       missing, snapshots, now, envBudget>>

\* Syncs to both destinations, reviews and cache clearing.
NextClear ==
    \/ \E dest \in Destinations : Sync(dest, TRUE, {}, FALSE)
    \/ \E row \in matched : ApproveTrack(row)
    \/ \E row \in matched : RejectTrack(row)
    \/ \E destination \in Destinations \cup {NoDestination},
          preserve_reviewed \in BOOLEAN :
            ClearMatchedTracks(destination, preserve_reviewed)

SpecClear == Init /\ [][NextClear]_vars

------------------------------------------------------------------------------
(* The store under any sequence of writes to folder_mappings and
   matched_tracks, for the mappings of one folder and the row of one track. *)

\* state/tracker.py: delete_matched_track
DeleteMatchedTrack(table, key) == table \ RowsOf(table, key)

\* The values written for a track: not found, a flagged and a sure match.
MatchValues(dest) ==
    { [track_id |-> NoneId, confidence |-> 0],
      [track_id |-> NativeId(dest, 1), confidence |-> 40],
      [track_id |-> NativeId(dest, 2), confidence |-> 100] }

\* The key of matched_tracks that is written.
StoreTrack == Tracklist(1)[1]
StoreDestination == "spotify"

\* One write to folder_mappings.
WriteMapping(dest, n, delete) ==
    /\ mappings' =
          IF delete THEN DeleteFolderMapping(mappings, 1, dest)
          ELSE SaveFolderMapping(mappings, 1, FolderName(n), dest, StrOf(n),
                                 PlaylistPrefix \o FolderName(n))
    /\ run' = [kind |-> "write", table |-> "folder_mappings",
               op |-> IF delete THEN "delete" ELSE "save",
               folder_id |-> 1, destination |-> dest,
               folder_name |-> FolderName(n), playlist_id |-> StrOf(n),
               playlist_name |-> PlaylistPrefix \o FolderName(n)]
    /\ UNCHANGED <<folders, folderReleases, search, playlists, matched,
                   missing, snapshots, now, envBudget>>

\* One write to matched_tracks: save_matched_track, update_matched_track,
\* update_review_status or delete_matched_track.
WriteMatched(dest, op, v, status) ==
    \E key \in { TrackKey(StoreTrack, dest) } :
        /\ op = "update" => v.track_id # NoneId
        /\ matched' =
              IF op = "save"
              THEN SaveMatchedTrack(matched, key, v.track_id, v.confidence, now)
              ELSE IF op = "update"
              THEN UpdateMatchedTrack(matched, key, v.track_id, v.confidence, now)
              ELSE IF op = "review"
              THEN UpdateReviewStatus(matched, key, status)
              ELSE DeleteMatchedTrack(matched, key)
        /\ run' = [kind |-> "write", table |-> "matched_tracks", op |-> op,
                   key |-> key, track_id |-> v.track_id,
                   confidence |-> v.confidence, status |-> status,
                   before |-> RowsOf(matched, key), today |-> now]
        /\ UNCHANGED <<folders, folderReleases, search, playlists, mappings,
                       missing, snapshots, now, envBudget>>

NextStore ==
    \/ \E dest \in Destinations, n \in UserFolderIds, delete \in BOOLEAN :
            WriteMapping(dest, n, delete)
    \/ \E op \in {"save", "update", "review", "delete"},
          status \in {"pending", "approved", "rejected"},
          v \in MatchValues(StoreDestination) :
            WriteMatched(StoreDestination, op, v, status)
    \/ Tick

SpecStore == Init /\ [][NextStore]_vars

------------------------------------------------------------------------------
(* The resolver's decision on the results of a search, for any configured
   min_confidence (Settings.min_confidence, 0.0 to 1.0). *)

MaxCands == 2

\* Total scores in hundredths, and the thresholds a user may configure.
CandScores == {0, 20, 30, 96, 99}
MinConfidences == {0, 30, 98, 100}

\* The result lists of at most MaxCands candidates, candidate i with id i.
ResultLists ==
    UNION { { [ i \in 1..n |-> [id |-> i, score |-> scores[i]] ] :
                scores \in [1..n -> CandScores] } : n \in 0..MaxCands }

\* sync/engine.py: _find_track_match from the scoring loop on.
ResolveResults(results, min_confidence) ==
    /\ run = [kind |-> "search_results", results |-> results,
              min_confidence |-> min_confidence]
    /\ \E best \in { BestMatch(results, 1, NoBest) } :
          run' = [kind |-> "resolve", results |-> results,
                  min_confidence |-> min_confidence, best |-> best,
                  found |-> results # << >> /\ Accepts(best, min_confidence)]
    /\ UNCHANGED <<folders, folderReleases, search, playlists, mappings,
                   matched, missing, snapshots, now, envBudget>>

InitResolve ==
    /\ InitStore
    /\ run \in [kind : {"search_results"}, results : ResultLists,
                min_confidence : MinConfidences]

NextResolve ==
    \E results \in ResultLists, min_confidence \in MinConfidences :
        ResolveResults(results, min_confidence)

SpecResolve == InitResolve /\ [][NextResolve]_vars

-----------------------------------------------------------------------------
(* sync/engine.py: the worker pool of _sync_folder.  One task per entry of
   the release list runs process_release; the caller merges the result of a
   task when as_completed hands it over.  A step of a task is one call of the
   store, with what the task does on its own before the next call: the cache
   lookup of _find_track_match, or the search with the saves that follow it. *)

\* list(get_folder_releases(folder.id)) where it is not empty: one Release
\* per item of the folder, an item being one copy of a release in the
\* collection.
WorkerReleaseLists == { releases \in ReleaseLists : releases # << >> }

WorkerFolder == Folder(1)

WorkerDestination == "spotify"

\* local_ids, local_adds, local_ops, local_missing, local_flagged
EmptyLocal ==
    [ids |-> {}, adds |-> << >>, ops |-> << >>, missing |-> 0, flagged |-> 0]

\* desired_track_ids, tracks_to_add, result.operations, result.tracks_missing
\* and result.tracks_flagged of the caller.
EmptyMerged == EmptyLocal

WorkersStart(releases) ==
    [kind |-> "workers", releases |-> releases,
     workers |-> [ i \in 1..Len(releases) |->
                     [release |-> releases[i], track |-> 1, phase |-> "lookup",
                      local |-> EmptyLocal] ],
     order |-> << >>, result |-> EmptyMerged, accesses |-> {},
     matched_before |-> {}, missing_before |-> {}]

IsDone(worker) == worker.track > Len(Tracklist(worker.release))

\* The locals of process_release with the tables as the task finds them.
AccOf(local, matched_rows, missing_rows) ==
    [matched |-> matched_rows, missing_rows |-> missing_rows, ids |-> local.ids,
     adds |-> local.adds, ops |-> local.ops, missing |-> local.missing,
     flagged |-> local.flagged, searches |-> 0, matches |-> {}, misses |-> {},
     log |-> << >>, fault |-> NoFault, raised |-> {}]

LocalOf(acc) ==
    [ids |-> acc.ids, adds |-> acc.adds, ops |-> acc.ops,
     missing |-> acc.missing, flagged |-> acc.flagged]

Access(i, key, mode) == [worker |-> i, key |-> key, mode |-> mode]

\* The rest of the loop body of process_release once _find_track_match has
\* returned m.
WorkerAdvance(i, m, mode) ==
    LET worker == run.workers[i]
        track == Tracklist(worker.release)[worker.track]
        out == ProcessTrackResult(AccOf(worker.local, matched, missing), m, track,
                                  WorkerFolder, WorkerDestination,
                                  PlaylistPrefix \o WorkerFolder.name)
    IN  /\ matched' = out.matched
        /\ missing' = out.missing_rows
        /\ run' = [run EXCEPT
                     !.workers[i] = [release |-> worker.release,
                                     track |-> worker.track + 1,
                                     phase |-> "lookup", local |-> LocalOf(out)],
                     !.accesses = @ \cup {Access(i, TrackKey(track, WorkerDestination),
                                                 mode)}]

\* get_cached_match of the task's track: on a hit _find_track_match returns.
WorkerLookup(i) ==
    /\ run.kind = "workers"
    /\ i \in 1..Len(run.workers)
    /\ ~IsDone(run.workers[i])
    /\ run.workers[i].phase = "lookup"
    /\ \E track \in {Tracklist(run.workers[i].release)[run.workers[i].track]} :
        \E cached \in {GetCachedMatch(matched, TrackKey(track, WorkerDestination), now)} :
            IF IsCacheHit(cached)
            THEN \E m \in {FindTrackMatch(matched, track, WorkerDestination, now)} :
                    WorkerAdvance(i, m, "read")
            ELSE /\ run' = [run EXCEPT
                              !.workers[i].phase = "search",
                              !.accesses = @ \cup
                                  {Access(i, TrackKey(track, WorkerDestination),
                                          "read")}]
                 /\ UNCHANGED <<matched, missing>>
    /\ UNCHANGED <<folders, folderReleases, search, playlists, mappings,
                   snapshots, now, envBudget>>

\* The search, save_matched_track and, for a track not found,
\* save_missing_track.
WorkerSearch(i) ==
    /\ run.kind = "workers"
    /\ i \in 1..Len(run.workers)
    /\ ~IsDone(run.workers[i])
    /\ run.workers[i].phase = "search"
    /\ \E track \in {Tracklist(run.workers[i].release)[run.workers[i].track]} :
        \E m \in {SearchAndSave(matched, track, WorkerDestination, now)} :
            WorkerAdvance(i, m, "write")
    /\ UNCHANGED <<folders, folderReleases, search, playlists, mappings,
                   snapshots, now, envBudget>>

\* tracks_missing = missing in place of tracks_missing += missing.
MergeAssign(result, local) ==
    [ids |-> result.ids \cup local.ids,
     adds |-> result.adds \o local.adds,
     ops |-> result.ops \o local.ops,
     missing |-> local.missing,
     flagged |-> result.flagged + local.flagged]

\* The body of "for future in as_completed(futures)".
Merge(result, local) ==
    [ids |-> result.ids \cup local.ids,
     adds |-> result.adds \o local.adds,
     ops |-> result.ops \o local.ops,
     missing |-> result.missing + local.missing,
     flagged |-> result.flagged + local.flagged]

\* as_completed hands over a finished task, in any order of completion.
WorkerMerge(i) ==
    /\ run.kind = "workers"
    /\ i \in 1..Len(run.workers)
    /\ IsDone(run.workers[i])
    /\ i \notin SeqRange(run.order)
    /\ run' = [run EXCEPT !.order = Append(@, i),
                          !.result = Merge(@, run.workers[i].local)]
    /\ UNCHANGED <<folders, folderReleases, search, playlists, mappings, matched,
                   missing, snapshots, now, envBudget>>

InitWorkers ==
    /\ InitStore
    /\ run \in { WorkersStart(releases) : releases \in WorkerReleaseLists }

NextWorkers ==
    \/ \E i \in 1..MaxReleases : WorkerLookup(i)
    \/ \E i \in 1..MaxReleases : WorkerSearch(i)
    \/ \E i \in 1..MaxReleases : WorkerMerge(i)

\* The worker tasks of one folder sync under every interleaving.
SpecWorkers == InitWorkers /\ [][NextWorkers]_vars

-----------------------------------------------------------------------------
(* The multi-query search of the resolver: the queries issued for one catalog
   track, at most max_search_queries of them, and the candidates that are
   scored, each platform track id once.  The engine under sync/engine.py
   issues the primary query and the fallback query only; the multi-query
   search is described by the specification and by
   tests/test_sync/test_engine.py (TestMultiQuerySearch). *)

MaxQueries == 2

PlatformIds == {123, 456}

\* What search_tracks returns for one query: search results by track id.
QueryResults == UNION { [1..n -> PlatformIds] : n \in 0..MaxCands }

\* The results of the queries issued for a track, in the order of the queries.
QueryRuns == UNION { [1..q -> QueryResults] : q \in 1..MaxQueries }

RECURSIVE Concat(_, _)
Concat(lists, i) ==
    IF i > Len(lists) THEN << >> ELSE lists[i] \o Concat(lists, i + 1)

\* The results of every query, a track id as often as it was returned.
MultiQuerySearchAll(per_query) == Concat(per_query, 1)

RECURSIVE FirstOccurrences(_, _, _)
FirstOccurrences(results, i, seen) ==
    IF i > Len(results) THEN << >>
    ELSE IF results[i] \in seen THEN FirstOccurrences(results, i + 1, seen)
    ELSE << results[i] >> \o FirstOccurrences(results, i + 1, seen \cup {results[i]})

\* The results of the queries in order, a result being kept when its track
\* id was not seen before.
MultiQuerySearch(per_query) == FirstOccurrences(Concat(per_query, 1), 1, {})

SearchQueries(per_query) ==
    /\ run = [kind |-> "queries", per_query |-> per_query]
    /\ \E results \in { MultiQuerySearch(per_query) } :
          run' = [kind |-> "multi_query_search", per_query |-> per_query,
                  results |-> results]
    /\ UNCHANGED <<folders, folderReleases, search, playlists, mappings,
                   matched, missing, snapshots, now, envBudget>>

InitQueries ==
    /\ InitStore
    /\ run \in [kind : {"queries"}, per_query : QueryRuns]

NextQueries == \E per_query \in QueryRuns : SearchQueries(per_query)

\* The multi-query search on any results of the queries of a track.
SpecQueries == InitQueries /\ [][NextQueries]_vars

-----------------------------------------------------------------------------
(* matching/fuzzy.py: parse_track_title.  A title is a sequence of tokens, a
   token being a word outside parentheses or a parenthetical with the words
   between its parentheses. *)

MaxTitleLen == 2

Word(w) == [paren |-> FALSE, words |-> << w >>]

Paren(words) == [paren |-> TRUE, words |-> words]

\* The parentheticals of the titles: specific markers, one of them in
\* another spelling, generic ones and one no pattern lists.
TitleTokens ==
    { Word("Track"),
      Paren(<<"Radio", "Edit">>), Paren(<<"radio", "edit">>),
      Paren(<<"extended", "mix">>), Paren(<<"vip", "mix">>), Paren(<<"dub">>),
      Paren(<<"X", "remix">>), Paren(<<"X", "edit">>), Paren(<<"X", "dub">>),
      Paren(<<"X", "mix">>), Paren(<<"feat", "Y">>) }

Titles == UNION { [1..n -> TitleTokens] : n \in 0..MaxTitleLen }

\* flags=re.IGNORECASE on the words of the titles.
LowerWord(w) ==
    IF w = "Radio" THEN "radio" ELSE IF w = "Edit" THEN "edit" ELSE w

LowerWords(words) == [ i \in 1..Len(words) |-> LowerWord(words[i]) ]

\* A pattern without a group matches the parentheticals of its spellings; a
\* pattern "\(([^)]+)\s+last\)" those of two or more words ending in last,
\* its group being the words before.
Exact(spellings, vtype) ==
    [group |-> FALSE, spellings |-> spellings, last |-> "", vtype |-> vtype]

Generic(last, vtype) ==
    [group |-> TRUE, spellings |-> {}, last |-> last, vtype |-> vtype]

\* The patterns with the generic ones before the specific markers.
VersionPatternsGenericFirst ==
    << Generic("remix", "remix"),
       Generic("edit", "edit"),
       Generic("dub", "dub"),
       Generic("mix", "remix"),
       Exact({<<"extended", "mix">>}, "extended"),
       Exact({<<"extended", "version">>}, "extended"),
       Exact({<<"extended">>}, "extended"),
       Exact({<<"original", "mix">>}, "original"),
       Exact({<<"original", "version">>}, "original"),
       Exact({<<"original">>}, "original"),
       Exact({<<"radio", "edit">>}, "radio"),
       Exact({<<"radio", "mix">>}, "radio"),
       Exact({<<"radio", "version">>}, "radio"),
       Exact({<<"instrumental", "mix">>}, "instrumental"),
       Exact({<<"instrumental">>}, "instrumental"),
       Exact({<<"acapella">>}, "acapella"),
       Exact({<<"acappella">>, <<"a", "cappella">>}, "acapella"),
       Exact({<<"remaster">>, <<"remastered">>}, "remaster"),
       Exact({<<"live">>}, "live"),
       Exact({<<"dub">>}, "dub"),
       Exact({<<"rework">>}, "edit"),
       Exact({<<"bootleg">>}, "edit"),
       Exact({<<"vip", "mix">>}, "edit"),
       Exact({<<"vip">>}, "edit") >>

\* VERSION_PATTERNS, in list order.  The year of the remaster pattern and
\* the words after "live" are not among the words of the titles.
VersionPatterns ==
    << Exact({<<"extended", "mix">>}, "extended"),
       Exact({<<"extended", "version">>}, "extended"),
       Exact({<<"extended">>}, "extended"),
       Exact({<<"original", "mix">>}, "original"),
       Exact({<<"original", "version">>}, "original"),
       Exact({<<"original">>}, "original"),
       Exact({<<"radio", "edit">>}, "radio"),
       Exact({<<"radio", "mix">>}, "radio"),
       Exact({<<"radio", "version">>}, "radio"),
       Exact({<<"instrumental", "mix">>}, "instrumental"),
       Exact({<<"instrumental">>}, "instrumental"),
       Exact({<<"acapella">>}, "acapella"),
       Exact({<<"acappella">>, <<"a", "cappella">>}, "acapella"),
       Exact({<<"remaster">>, <<"remastered">>}, "remaster"),
       Exact({<<"live">>}, "live"),
       Exact({<<"dub">>}, "dub"),
       Exact({<<"rework">>}, "edit"),
       Exact({<<"bootleg">>}, "edit"),
       Exact({<<"vip", "mix">>}, "edit"),
       Exact({<<"vip">>}, "edit"),
       Generic("remix", "remix"),
       Generic("edit", "edit"),
       Generic("dub", "dub"),
       Generic("mix", "remix") >>

\* The pattern matches the token.
PatternMatches(pattern, token) ==
    /\ token.paren
    /\ IF pattern.group
       THEN /\ Len(token.words) >= 2
            /\ LowerWord(token.words[Len(token.words)]) = pattern.last
       ELSE LowerWords(token.words) \in pattern.spellings

\* re.search(pattern, title): the leftmost match, 0 for none.
SearchPattern(pattern, title) ==
    LET hits == { i \in 1..Len(title) : PatternMatches(pattern, title[i]) }
    IN  IF hits = {} THEN 0 ELSE Min(hits)

\* The title without the token at i.
WithoutToken(title, i) ==
    [ j \in 1..(Len(title) - 1) |-> IF j < i THEN title[j] ELSE title[j + 1] ]

\* re.search(r"\(([^)]+)\)", title): the leftmost parenthetical.
FirstParen(title) ==
    LET hits == { i \in 1..Len(title) : title[i].paren }
    IN  IF hits = {} THEN 0 ELSE Min(hits)

\* The loop "for pattern, vtype in VERSION_PATTERNS" from pattern p on, and
\* the test for any parenthetical after it.
RECURSIVE ParseFrom(_, _)
ParseFrom(title, p) ==
    IF p > Len(VersionPatterns)
    THEN IF FirstParen(title) # 0
         THEN [base_title |-> SubSeq(title, 1, FirstParen(title) - 1),
               version |-> title[FirstParen(title)].words,
               version_type |-> "other", remixer |-> << >>, full_title |-> title]
         ELSE [base_title |-> title, version |-> << >>,
               version_type |-> "original", remixer |-> << >>,
               full_title |-> title]
    ELSE IF SearchPattern(VersionPatterns[p], title) # 0
    THEN LET i == SearchPattern(VersionPatterns[p], title)
         IN  [base_title |-> WithoutToken(title, i),
              version |-> title[i].words,
              version_type |-> VersionPatterns[p].vtype,
              remixer |-> IF VersionPatterns[p].group
                          THEN SubSeq(title[i].words, 1, Len(title[i].words) - 1)
                          ELSE << >>,
              full_title |-> title]
    ELSE ParseFrom(title, p + 1)

ParseTrackTitle(title) == ParseFrom(title, 1)

ParseTitle(title) ==
    /\ run = [kind |-> "title", title |-> title]
    /\ \E parsed \in { ParseTrackTitle(title) } :
          run' = [kind |-> "parse_track_title", title |-> title,
                  parsed |-> parsed]
    /\ UNCHANGED <<folders, folderReleases, search, playlists, mappings,
                   matched, missing, snapshots, now, envBudget>>

InitParse ==
    /\ InitStore
    /\ run \in [kind : {"title"}, title : Titles]

NextParse == \E title \in Titles : ParseTitle(title)

\* parse_track_title on any title.
SpecParse == InitParse /\ [][NextParse]_vars

------------------------------------------------------------------------------
(* The tracklist of a release as the catalog gives it.  get_release_tracks
   (clients/discogs.py) keeps every track whose position is not empty and is
   not "video" or "dvd"; nothing makes the positions of a release distinct.
   process_release resolves the tracks in the order of the list. *)

TrackPositions == {"A1", "A2"}

\* The tracklists of release 1: its two titles, each at a position.
PositionTracklists ==
    { [ i \in 1..Len(Tracklist(1)) |->
          [Tracklist(1)[i] EXCEPT !.position = positions[i]] ] :
        positions \in [1..Len(Tracklist(1)) -> TrackPositions] }

PositionsStart(tracks) ==
    [kind |-> "positions", tracks |-> tracks, phase |-> "start",
     dest |-> NoDestination, log |-> << >>]

\* process_release of the release in a sync to dest: _find_track_match of
\* each track of the list in turn, with the saves that follow it.
ProcessRelease(dest) ==
    /\ run.kind = "positions"
    /\ run.phase # "again"
    /\ \E acc \in { ProcessTracks(AccOf(EmptyLocal, matched, missing), run.tracks, 1,
                                  WorkerFolder, dest,
                                  PlaylistPrefix \o WorkerFolder.name, now) } :
        /\ matched' = acc.matched
        /\ missing' = acc.missing_rows
        /\ run' = [run EXCEPT
                     !.phase = IF @ = "start" THEN "first" ELSE "again",
                     !.dest = dest,
                     !.log = acc.log]
    /\ UNCHANGED <<folders, folderReleases, search, playlists, mappings,
                   snapshots, now, envBudget>>

\* An empty store, a tracklist of the release and a search index for its
\* tracks.
InitPositions ==
    /\ folders = UserFolderIds
    /\ folderReleases = [ f \in AllFolderIds |-> IF f = 2 THEN {2} ELSE {1} ]
    /\ playlists = [ d \in Destinations |-> << >> ]
    /\ mappings = {}
    /\ matched = {}
    /\ missing = {}
    /\ snapshots = {}
    /\ now = 0
    /\ envBudget = MaxEnv
    /\ \E tracks \in PositionTracklists :
        /\ run = PositionsStart(tracks)
        /\ search \in [SeqRange(tracks) -> SearchOutcomes]

NextPositions == \E dest \in Destinations : ProcessRelease(dest)

\* One release resolved once and again, for every tracklist and search index.
SpecPositions == InitPositions /\ [][NextPositions]_vars

------------------------------------------------------------------------------
(* Both destinations in one behaviour: the runs of sync_to_spotify and
   sync_to_soundcloud share the store, each with its own platform. *)

NextBoth ==
    \/ \E dest \in Destinations, include_wantlist \in BOOLEAN :
            Sync(dest, include_wantlist, {}, FALSE)
    \/ \E f \in UserFolderIds : FolderChange(f)

SpecBoth == Init /\ [][NextBoth]_vars

-----------------------------------------------------------------------------
(* Properties *)

IsSync == run.kind = "sync"

Reports == IF IsSync THEN SeqRange(run.reports) ELSE {}

StrIds(ids) == { StrOf(t) : t \in ids }

MutatingMethods == {"create_playlist", "delete_playlist",
                    "add_tracks_to_playlist", "remove_tracks_from_playlist"}

CallsOf(methods) == { i \in 1..Len(run.calls) : run.calls[i].method \in methods }

OperationTypes == {"create_playlist", "delete_playlist", "add_track", "remove_track"}

C2_Idempotence ==
    IsSync /\ run.repeat =>
        CallsOf({"add_tracks_to_playlist", "remove_tracks_from_playlist"}) = {}

\* C3: a run deletes the playlist and mapping only of folders that are no
\* longer in the catalog; the wantlist is always in the catalog.
C3_DeletesOnlyMissingFolders ==
    IsSync => run.deleted_folders \cap run.catalog_folders = {}

\* C4: a dry-run sync makes no create, delete, add or remove call on the
\* PlaylistClient.
C4_DryRunNoMutatingCall ==
    IsSync /\ run.dry_run => CallsOf(MutatingMethods) = {}

C4_Witness ==
    /\ IsSync /\ run.dry_run
    /\ OpCount(run.ops, "create_playlist") > 0
    /\ OpCount(run.ops, "delete_playlist") > 0
    /\ OpCount(run.ops, "add_track") > 0
    /\ \E rep \in Reports : ~rep.skipped /\ StrIds(rep.before) # rep.desired
                            /\ rep.playlist # NoPlaylistId

\* C5: a dry run and a non-dry run from the same state log the same number
\* of operations of each type.
C5_DryRunSameLog ==
    IsSync => \A type \in OperationTypes :
                  OpCount(run.ops, type) = OpCount(run.twin_ops, type)

Keys == { TrackKey(t, d) : t \in Tracks, d \in Destinations }

Days == 0..MaxNow

TrackOfKey(key) == CHOOSE t \in Tracks : t.release = key[1] /\ t.position = key[2]

\* The rows that were rejected when the run started, for its destination.
RejectedBefore ==
    IF IsSync
    THEN { row \in run.reviewed_before :
             row.review_status = "rejected" /\ row.destination = run.dest }
    ELSE {}

\* C6: a non-dry-run sync does not match a track to the platform id that was
\* rejected for it, and that id is not in the playlist of the track's folder
\* after the sync.
C6_RejectedNotRematched ==
    \A row \in RejectedBefore : \A rep \in Reports :
        ~run.dry_run /\ ~rep.skipped /\ row.release \in folderReleases[rep.folder] =>
            /\ \A m \in rep.matches :
                  <<m.release, m.position>> = <<row.release, row.position>> =>
                      m.track_id # row.track_id
            /\ row.track_id \notin StrIds(rep.after)

\* C7: a row that was approved or rejected before a sync run exists with the
\* same review status after it.
C7_SyncKeepsReviewStatus ==
    IsSync =>
        \A before \in run.reviewed_before :
            \E row \in matched :
                /\ RowKey(row) = RowKey(before)
                /\ row.review_status = before.review_status

\* C8: get_cached_match returns no rejected row, whatever the day of the
\* lookup, the row's platform id and its confidence.
C8_RejectedNeverReturned ==
    \A key \in Keys, today \in Days :
        LET cached == GetCachedMatch(matched, key, today)
        IN  cached.found => cached.row.review_status # "rejected"

C8_Witness ==
    \E row \in matched :
        /\ row.review_status = "rejected"
        /\ row.track_id # NoneId
        /\ NotExpired(row, now)
        /\ ~GetCachedMatch(matched, RowKey(row), now).found

\* C9: an expired pending row is not returned by get_cached_match, and an
\* approved row is returned at any age.
C9_ApprovedPinned ==
    \A row \in matched :
        /\ row.review_status = "pending" /\ now - row.searched_at >= MaxAgeDays
              => ~GetCachedMatch(matched, RowKey(row), now).found
        /\ row.review_status = "approved"
              => GetCachedMatch(matched, RowKey(row), now).found

\* The matches the resolver accepted from a search in the last run.
Accepted == UNION { { m \in rep.matches : ~m.cache_hit } : rep \in Reports }

\* C10: resolving again a track whose match was accepted in the last run
\* makes no search call, writes nothing to the store and returns the same
\* platform id and confidence.  The ids are compared as the engine compares
\* them, by str(): the search returns a SoundCloud id as an int and the
\* cache returns it as the text it stored.
C10_ResolverIdempotent ==
    \A m \in Accepted :
        LET again == FindTrackMatch(matched, TrackOfKey(<<m.release, m.position>>),
                                    run.dest, now)
        IN  /\ again.found
            /\ again.cache_hit
            /\ again.searches = 0
            /\ again.writes = 0
            /\ again.matched = matched
            /\ StrOf(again.track_id) = m.track_id
            /\ again.confidence = m.confidence

C10_Witness ==
    /\ Accepted # {}
    /\ \E m \in Accepted : m.confidence >= HighConfidence
    /\ \E m \in Accepted : m.confidence < HighConfidence

\* The tracks whose resolution ended in not-found in the last run.
NotFound == UNION { rep.misses : rep \in Reports }

\* C11: resolving again a track whose resolution ended in not-found in the
\* last run, before the row expires, makes no search call.
C11_NegativeCaching ==
    \A miss \in NotFound :
        FindTrackMatch(matched, TrackOfKey(<<miss.release, miss.position>>),
                       run.dest, now).searches = 0

\* The run reached the end of _sync and returned a SyncResult that has every
\* folder of the run in it.
Completed ==
    /\ ~run.raised
    /\ { rep.folder : rep \in Reports } = run.run_folders

\* C12: a run in which the search call for one track or the tracklist fetch
\* of one release raises still processes every folder and returns its
\* SyncResult.
C12_TrackFailureIsolated ==
    IsSync /\ run.fault.kind \in {"search", "tracks"} => Completed

\* C13: a run in which a PlaylistClient call for one folder raises still
\* processes every folder and returns its SyncResult.
C13_FolderFailureIsolated ==
    IsSync /\ run.fault.kind = "client" => Completed

\* C14: in a behaviour that consists of sync runs only, no two folders of a
\* non-dry run are reconciled against the same playlist, and every synced
\* folder is reconciled against the one live playlist its mapping records.
C14_FoldersOneToOne ==
    IsSync /\ ~run.dry_run /\ envBudget = MaxEnv =>
        /\ \A r1, r2 \in Reports :
              ~r1.skipped /\ ~r2.skipped /\ r1.folder # r2.folder =>
                  r1.playlist # r2.playlist
        /\ \A rep \in Reports :
              ~rep.skipped =>
                  LET mapping == GetFolderMapping(mappings, rep.folder, run.dest)
                  IN  mapping.found =>
                        /\ IntOf(mapping.row.playlist_id) = rep.playlist
                        /\ Cardinality({ i \in 1..Len(playlists[run.dest]) :
                              playlists[run.dest][i].id = rep.playlist }) = 1

\* C15 as stated: a dry run leaves the tables folder_mappings and
\* folder_releases as they were.
C15_DryRunNoMappingNoSnapshotWrite ==
    IsSync /\ run.dry_run =>
        /\ mappings = run.mappings_before
        /\ snapshots = run.snapshots_before

\* C15 amended: a dry run leaves the table folder_mappings as it was; it
\* writes to matched_tracks, missing_tracks and folder_releases what the
\* non-dry run from the same state writes.
C15_DryRunNoMappingWrite ==
    IsSync /\ run.dry_run =>
        /\ mappings = run.mappings_before
        /\ matched = run.twin_matched
        /\ missing = run.twin_missing
        /\ snapshots = run.twin_snapshots

C15_Witness ==
    /\ IsSync /\ run.dry_run
    /\ OpCount(run.ops, "create_playlist") > 0
    /\ OpCount(run.ops, "delete_playlist") > 0
    /\ run.mappings_before # {}
    /\ mappings = run.mappings_before
    /\ snapshots # run.snapshots_before
    /\ matched # {}

\* C16: after update_folder_releases for a folder with a list of at least
\* one release id, the folder's snapshot is the set of the ids of the list
\* and the snapshots of the other folders are as before.
C16_SnapshotReplaced ==
    run.kind = "update_folder_releases" /\ Len(run.release_ids) > 0 =>
        /\ ~run.raised
        /\ { s.release : s \in { t \in snapshots : t.folder = run.folder } }
              = SeqRange(run.release_ids)
        /\ { s \in snapshots : s.folder # run.folder }
              = { s \in run.snapshots_before : s.folder # run.folder }

AddOps == { i \in 1..Len(run.ops) : run.ops[i].type = "add_track" }

RECURSIVE CountMatches(_, _)
CountMatches(reports, i) ==
    IF i > Len(reports) THEN 0
    ELSE Cardinality(reports[i].matches) + CountMatches(reports, i + 1)

\* C17: every accepted match of a run is in the desired set of its folder and
\* has its ADD_TRACK entry, flagged or not; an entry is flagged exactly when
\* its confidence is strictly below high_confidence, and tracks_flagged
\* counts the flagged entries.
C17_FlaggingIndependent ==
    IsSync /\ ~run.raised =>
        /\ \A rep \in Reports : \A m \in rep.matches :
              /\ m.track_id \in rep.desired
              /\ \E i \in AddOps :
                    /\ run.ops[i].title
                         = TrackOfKey(<<m.release, m.position>>).title
                    /\ run.ops[i].confidence = m.confidence
        /\ Cardinality(AddOps) = CountMatches(run.reports, 1)
        /\ \A i \in AddOps :
              run.ops[i].flagged <=> run.ops[i].confidence < HighConfidence
        /\ run.flagged = Cardinality({ i \in AddOps : run.ops[i].flagged })

C17_Witness ==
    /\ IsSync /\ ~run.raised
    /\ \E i \in AddOps : run.ops[i].confidence = HighConfidence /\ ~run.ops[i].flagged
    /\ \E i \in AddOps : run.ops[i].confidence < HighConfidence /\ run.ops[i].flagged
    /\ \E i \in AddOps : run.ops[i].confidence > HighConfidence /\ ~run.ops[i].flagged

\* C18: with the default weights the total score of every candidate, the
\* confidence the resolver returns and persists, is at least 0 and at most 1
\* (1000000 millionths).
C18_ConfidenceInUnitInterval ==
    run.kind = "score_candidate" =>
        /\ 0 <= run.confidence
        /\ run.confidence <= 100 * 10000

\* C19: a correction of an existing row with a text from which no platform
\* track id is extracted for the row's destination ends with an error and
\* leaves the row (platform id, confidence, searched-at time, review status)
\* and every other row as before.
C19_InvalidCorrectionRejected ==
    run.kind = "correct_track" /\ run.new_track_id = NoneId
        /\ RowsOf(run.matched_before, run.key) # {} =>
            /\ run.status = 400
            /\ matched = run.matched_before

C19_Witness ==
    /\ run.kind = "correct_track" /\ run.new_track_id = NoneId
    /\ run.status = 400
    /\ \E row \in RowsOf(run.matched_before, run.key) :
          /\ row.review_status = "pending"
          /\ row.track_id # NoneId
          /\ row.searched_at < now
          /\ row \in matched

\* C20: normalize_text applied to its own result gives the result again.
C20_NormalizeIdempotent ==
    run.kind = "normalize_text" => run.twice = run.once

DestinationFilters == Destinations \cup {NoDestination}

\* The row of the last review (approve, reject or accepted correction).
Reviewed ==
    IF run.kind \in {"approve_track", "reject_track"}
          \/ (run.kind = "correct_track" /\ run.status = 303)
    THEN RowsOf(matched, run.key)
    ELSE {}

\* C21: for every destination filter, a row is in the result of
\* get_flagged_tracks exactly when its confidence is above 0 and below
\* high_confidence, it has a platform id, it is pending and it is of the
\* destination asked for; the row just approved, rejected or corrected is
\* not in the result.
C21_FlaggedExactly ==
    \A d \in DestinationFilters :
        /\ \A row \in matched :
              row \in GetFlaggedTracks(matched, HighConfidence, d) <=>
                  /\ 0 < row.confidence /\ row.confidence < HighConfidence
                  /\ row.track_id # NoneId
                  /\ row.review_status = "pending"
                  /\ d \in Destinations => row.destination = d
        /\ GetFlaggedTracks(matched, HighConfidence, d) \subseteq matched
        /\ Reviewed \cap GetFlaggedTracks(matched, HighConfidence, d) = {}

C21_Witness ==
    /\ Reviewed # {}
    /\ \A row \in Reviewed :
          0 < row.confidence /\ row.confidence < HighConfidence
    /\ \E row \in matched : row.track_id = NoneId
    /\ \E row \in matched : row.confidence >= HighConfidence

\* The rows of the destination a clear was asked for.
InClearScope(row) ==
    run.destination \in Destinations => row.destination = run.destination

\* C22: clear_matched_tracks with preserve_reviewed=True deletes the pending
\* rows of the destination asked for (of every destination when none is
\* given) and no other row, leaves every approved or rejected row as it was,
\* and returns the number of the rows it deleted.
C22_ClearPreservesReviewed ==
    run.kind = "clear_matched_tracks" /\ run.preserve_reviewed =>
        /\ matched \subseteq run.matched_before
        /\ \A row \in run.matched_before :
              row \notin matched <=>
                  row.review_status = "pending" /\ InClearScope(row)
        /\ run.rowcount = Cardinality(run.matched_before \ matched)

C22_Witness ==
    /\ run.kind = "clear_matched_tracks" /\ run.preserve_reviewed
    /\ run.destination \in Destinations
    /\ run.rowcount > 0
    /\ \E row \in matched : row.review_status # "pending" /\ InClearScope(row)
    /\ \E row \in matched : row.review_status = "pending" /\ ~InClearScope(row)

MappingKeys == { <<f, d>> : f \in AllFolderIds, d \in Destinations }

\* C23: the store holds at most one folder mapping per (folder id,
\* destination) and at most one matched track per (release id, position,
\* destination), and after a write the row of its key reads as written: the
\* saved values, the updated columns with the others as before, or no row
\* after a delete.
C23_UpsertKeysUnique ==
    /\ \A k \in MappingKeys :
          Cardinality({ m \in mappings :
                          m.folder_id = k[1] /\ m.destination = k[2] }) <= 1
    /\ \A key \in Keys : Cardinality(RowsOf(matched, key)) <= 1
    /\ run.kind = "write" /\ run.table = "folder_mappings" =>
          IF run.op = "delete"
          THEN ~GetFolderMapping(mappings, run.folder_id, run.destination).found
          ELSE /\ GetFolderMapping(mappings, run.folder_id, run.destination).found
               /\ GetFolderMapping(mappings, run.folder_id, run.destination).row
                    = [folder_id |-> run.folder_id,
                       folder_name |-> run.folder_name,
                       destination |-> run.destination,
                       playlist_id |-> run.playlist_id,
                       playlist_name |-> run.playlist_name]
    /\ run.kind = "write" /\ run.table = "matched_tracks" =>
          IF run.op = "delete" THEN RowsOf(matched, run.key) = {}
          ELSE IF run.op = "save"
          THEN /\ GetCachedMatch(matched, run.key, run.today).found
               /\ GetCachedMatch(matched, run.key, run.today).row
                    = [release |-> run.key[1], position |-> run.key[2],
                       destination |-> run.key[3],
                       track_id |-> run.track_id,
                       confidence |-> run.confidence,
                       searched_at |-> run.today,
                       review_status |-> "pending"]
          ELSE IF run.op = "update"
          THEN RowsOf(matched, run.key)
                 = { [row EXCEPT !.track_id = run.track_id,
                                 !.confidence = run.confidence,
                                 !.searched_at = run.today] :
                       row \in run.before }
          ELSE RowsOf(matched, run.key)
                 = { [row EXCEPT !.review_status = run.status] :
                       row \in run.before }

C23_Witness ==
    /\ run.kind = "write" /\ run.table = "matched_tracks" /\ run.op = "save"
    /\ \E row \in run.before :
          /\ row.review_status = "approved"
          /\ row.track_id # run.track_id
          /\ row.searched_at < run.today
    /\ Cardinality(mappings) = Cardinality(Destinations)

\* C24: on a cache miss a match is returned exactly when some candidate of
\* the search results has a total score of at least min_confidence.
C24_AcceptIffCandidateAboveMin ==
    run.kind = "resolve" =>
        (run.found <=>
            \E i \in 1..Len(run.results) :
                run.results[i].score >= run.min_confidence)

\* The best total score of a list of search results, 0 for the empty list.
BestScoreOf(results) ==
    IF results = << >> THEN 0
    ELSE MaxOf({ results[i].score : i \in 1..Len(results) })

\* The row a resolution has to leave for its track.
ExpectedRow(e) ==
    [release |-> e.release, position |-> e.position, destination |-> run.dest,
     track_id |-> IF e.found THEN StrOf(e.track_id) ELSE NoneId,
     confidence |-> IF e.found THEN e.confidence ELSE BestScoreOf(e.results),
     searched_at |-> now, review_status |-> "pending"]

\* C25: a resolution of a run that searched made one write to
\* matched_tracks, and after it the track's key has the one row with the
\* accepted id and confidence, or with no id and the best score found, the
\* rows of the other keys being as before; a track that was not found has
\* its record in missing_tracks, and tracks_missing of a folder counts the
\* folder's tracks that were not found.
C25_OneUpsertPerResolution ==
    IsSync /\ ~run.raised =>
        \A rep \in Reports :
            /\ \A i \in 1..Len(rep.resolutions) :
                  /\ rep.resolutions[i].searches > 0 =>
                        /\ rep.resolutions[i].writes = 1
                        /\ rep.resolutions[i].rows
                             = { ExpectedRow(rep.resolutions[i]) }
                        /\ rep.resolutions[i].others_kept
                  /\ ~rep.resolutions[i].found =>
                        /\ rep.resolutions[i].searches > 0
                        /\ Cardinality(rep.resolutions[i].missing_records) = 1
            /\ rep.missing
                 = Cardinality({ i \in 1..Len(rep.resolutions) :
                                   ~rep.resolutions[i].found })

C25_Witness ==
    /\ IsSync /\ ~run.raised
    /\ \E rep \in Reports :
          /\ \E i \in 1..Len(rep.resolutions) :
                /\ rep.resolutions[i].found
                /\ rep.resolutions[i].searches > 0
          /\ \E i \in 1..Len(rep.resolutions) :
                /\ ~rep.resolutions[i].found
                /\ rep.resolutions[i].results = << >>
    /\ \E rep \in Reports :
          \E i \in 1..Len(rep.resolutions) :
                /\ ~rep.resolutions[i].found
                /\ BestScoreOf(rep.resolutions[i].results) > 0

\* matching/fuzzy.py: VersionType
VersionTypes ==
    {"original", "remix", "edit", "dub", "extended", "radio", "instrumental",
     "acapella", "remaster", "live", "other"}

NoFallbackTypes == {"remix", "dub", "edit"}

C27_MinimalDiff ==
    IsSync /\ ~run.dry_run /\ ~run.raised =>
        \A rep \in Reports :
            ~rep.skipped =>
                /\ StrIds(SeqRange(rep.ids_to_add))
                     = rep.desired \ StrIds(rep.before)
                /\ Len(rep.ids_to_add)
                     = Cardinality(rep.desired \ StrIds(rep.before))
                /\ StrIds(SeqRange(rep.ids_to_remove))
                     = StrIds(rep.before) \ rep.desired
                /\ rep.added = Cardinality(rep.desired \ StrIds(rep.before))
                /\ rep.removed = Cardinality(StrIds(rep.before) \ rep.desired)

\* C28: a folder whose release list is empty is skipped: its _sync_folder
\* makes no PlaylistClient call, writes no table of the store, leaves the
\* platform's playlists alone, emits no operation and changes no counter.
C28_EmptyFolderSkipped ==
    IsSync =>
        \A i \in 1..Len(run.effects) :
            LET e == run.effects[i]
            IN  e.reached /\ e.empty =>
                    /\ e.calls = 0
                    /\ e.writes = {}
                    /\ ~e.listing_changed
                    /\ e.ops = 0
                    /\ e.counters = {}

\* A non-dry run that skipped an empty folder holding a mapping, and synced
\* another folder with calls and operations.
C28_Witness ==
    /\ IsSync /\ ~run.dry_run /\ ~run.raised
    /\ run.calls # << >> /\ run.ops # << >>
    /\ \E i \in 1..Len(run.effects) :
        /\ run.effects[i].empty /\ run.effects[i].reached
        /\ \E m \in mappings : m.folder_id = run.effects[i].folder /\ m.destination = run.dest

\* The folder's sync emitted CREATE_PLAYLIST once if the folder had no
\* mapping or no live playlist with the mapping's name, and not otherwise; a
\* non-dry run then called create_playlist once for the new playlist, and
\* get_folder_mapping returns the new playlist's id and name.
CreatedWhenMissing(rep) ==
    LET needed == ~rep.mapped \/ ~rep.live
        playlist_name == PlaylistPrefix \o FolderName(rep.folder)
        mapping == GetFolderMapping(mappings, rep.folder, run.dest)
    IN  /\ rep.create_ops = IF needed THEN 1 ELSE 0
        /\ OpCount(run.ops, "create_playlist")
                = Cardinality({ other \in Reports : other.create_ops = 1 })
        /\ needed /\ ~run.dry_run =>
            /\ Cardinality({ i \in CallsOf({"create_playlist"}) :
                                run.calls[i].playlist = rep.playlist }) = 1
            /\ mapping.found
            /\ mapping.row.playlist_id = StrOf(rep.playlist)
            /\ mapping.row.playlist_name = playlist_name

\* C29 as stated: every folder sync of a run emits CREATE_PLAYLIST exactly
\* when the folder has no mapping for the destination or no playlist with the
\* mapping's stored name is found, and a non-dry run then creates the
\* playlist and upserts the mapping.
C29_CreateExactlyWhenMissing ==
    IsSync /\ ~run.raised => \A rep \in Reports : CreatedWhenMissing(rep)

\* C29 (amended): the sync of a folder whose release list is not empty emits
\* CREATE_PLAYLIST, once, exactly when the folder has no mapping for the
\* destination or no playlist with the mapping's stored name is found; a
\* non-dry run then creates the playlist and upserts the mapping, so that
\* get_folder_mapping returns the new playlist's id and name.
C29_CreateWhenMissingNonEmpty ==
    IsSync /\ ~run.raised =>
        \A rep \in Reports : ~rep.skipped => CreatedWhenMissing(rep)

\* A non-dry run re-created the playlist of a mapped folder whose playlist
\* was gone, and left alone the playlist of another mapped folder.
C29_Witness ==
    /\ IsSync /\ ~run.dry_run /\ ~run.raised
    /\ \E rep \in Reports : ~rep.skipped /\ rep.mapped /\ ~rep.live
    /\ \E rep \in Reports : ~rep.skipped /\ rep.mapped /\ rep.live

\* The mappings of the run's destination, as the run found them, whose folder
\* is not among the folders of the run.
StaleMappings ==
    { m \in run.mappings_before :
        m.destination = run.dest /\ m.folder_id \notin run.run_folders }

\* The DELETE_PLAYLIST entries of the run that name the mapping's folder and
\* playlist.
DeleteOps(m) ==
    { i \in 1..Len(run.ops) :
        /\ run.ops[i].type = "delete_playlist"
        /\ run.ops[i].folder_name = m.folder_name
        /\ run.ops[i].playlist_name = m.playlist_name }

\* C30: after a non-dry run for a destination no mapping of the destination
\* refers to a folder outside the folders of the run; every mapping that did
\* has one DELETE_PLAYLIST entry, playlists_deleted is the number of those
\* entries, and the mapping is gone whether or not a live playlist with its
\* name was found.
C30_CleanupComplete ==
    IsSync /\ ~run.dry_run /\ ~run.raised =>
        /\ \A m \in mappings :
            m.destination = run.dest => m.folder_id \in run.run_folders
        /\ \A m \in StaleMappings :
            /\ Cardinality(DeleteOps(m))
                = Cardinality({ other \in StaleMappings :
                                  /\ other.folder_name = m.folder_name
                                  /\ other.playlist_name = m.playlist_name })
            /\ ~GetFolderMapping(mappings, m.folder_id, run.dest).found
        /\ OpCount(run.ops, "delete_playlist") = Cardinality(StaleMappings)
        /\ run.deleted = OpCount(run.ops, "delete_playlist")
        /\ run.deleted_folders = { m.folder_id : m \in StaleMappings }

\* A non-dry run removed two mappings of folders outside the run, for one of
\* which no live playlist was found.
C30_Witness ==
    /\ IsSync /\ ~run.dry_run /\ ~run.raised
    /\ Cardinality(StaleMappings) = 2
    /\ Cardinality(CallsOf({"delete_playlist"})) = 1

\* C31: within one folder sync every key of matched_tracks is read and
\* written by one worker task only.
C31_KeyOwnedByOneWorker ==
    run.kind = "workers" =>
        \A a, b \in run.accesses : a.key = b.key => a.worker = b.worker

\* What process_release returns for the releases when the tasks run one
\* after the other in list order.
SequentialResult ==
    ProcessReleases(AccOf(EmptyLocal, run.matched_before, run.missing_before),
                    run.releases, 1, WorkerFolder, WorkerDestination,
                    PlaylistPrefix \o WorkerFolder.name, now)

OpTimes(ops, op) == Cardinality({ i \in 1..Len(ops) : ops[i] = op })

AllMerged == run.kind = "workers" /\ Len(run.order) = Len(run.workers)

\* Once every task is merged, in whatever order the tasks ran and completed,
\* the desired ids, tracks_missing, tracks_flagged and the ADD_TRACK entries
\* with their multiplicities are those of the tasks run one after the other.
MergedAsSequential ==
    AllMerged =>
        /\ run.result.ids = SequentialResult.ids
        /\ run.result.missing = SequentialResult.missing
        /\ run.result.flagged = SequentialResult.flagged
        /\ Len(run.result.ops) = Len(SequentialResult.ops)
        /\ \A op \in SeqRange(run.result.ops) \cup SeqRange(SequentialResult.ops) :
            OpTimes(run.result.ops, op) = OpTimes(SequentialResult.ops, op)

\* A step of a task leaves the caller's aggregates and the locals of the
\* other tasks as they are; the merge changes the caller's aggregates only.
OwnCollectionsOnly ==
    run.kind = "workers" /\ run'.kind = "workers" =>
        /\ \A i \in 1..Len(run.workers) :
            (WorkerLookup(i) \/ WorkerSearch(i)) =>
                /\ run'.result = run.result
                /\ \A j \in 1..Len(run.workers) :
                    j # i => run'.workers[j] = run.workers[j]
        /\ \A i \in 1..Len(run.workers) :
            WorkerMerge(i) => run'.workers = run.workers

\* C32: the results of the worker tasks are merged by the caller only, each
\* after its task has finished; for every interleaving and completion order
\* the folder's desired ids, tracks_missing, tracks_flagged and multiset of
\* ADD_TRACK entries are the same, and no task changes a collection of
\* another task or of the caller.
C32_MergeOrderIndependent ==
    /\ [](MergedAsSequential
           /\ (run.kind = "workers" =>
                 \A i \in SeqRange(run.order) : IsDone(run.workers[i])))
    /\ [][OwnCollectionsOnly]_vars

\* Two tasks of different releases, the second merged first, with a track
\* found and flagged and a track missing.
C32_Witness ==
    /\ AllMerged
    /\ run.order = <<2, 1>>
    /\ run.releases[1] # run.releases[2]
    /\ run.result.missing > 0 /\ run.result.flagged > 0

\* The matches the run reports for the track of the row.
MatchesOf(row) ==
    UNION { { match \in rep.matches :
                match.release = row.release /\ match.position = row.position } :
            rep \in Reports }

\* C33: an accepted correction leaves the row with the new platform id,
\* confidence 1.0 and status approved, so that get_flagged_tracks does not
\* return it; and the next resolution of the track, in whatever sync it
\* happens, is a cache hit that returns the new platform id.
C33_CorrectionPinned ==
    /\ run.kind = "correct_track" /\ run.status = 303 =>
        \A row \in RowsOf(matched, run.key) :
            /\ row.track_id = run.new_track_id
            /\ row.confidence = 100
            /\ row.review_status = "approved"
            /\ row \notin GetFlaggedTracks(matched, HighConfidence, NoDestination)
    /\ IsSync /\ ~run.raised =>
        \A row \in run.reviewed_before :
            row.destination = run.dest /\ row.review_status = "approved"
                /\ row.confidence = 100 =>
                    /\ MatchesOf(row) # {}
                    /\ \A match \in MatchesOf(row) :
                        /\ match.cache_hit
                        /\ match.track_id = StrOf(row.track_id)

SpecificMarkers ==
    << [words |-> <<"extended", "mix">>, vtype |-> "extended"],
       [words |-> <<"radio", "edit">>, vtype |-> "radio"],
       [words |-> <<"dub">>, vtype |-> "dub"],
       [words |-> <<"vip", "mix">>, vtype |-> "edit"] >>

HasMarker(title, k) ==
    \E i \in 1..Len(title) :
        title[i].paren /\ LowerWords(title[i].words) = SpecificMarkers[k].words

HasParen(title) == \E i \in 1..Len(title) : title[i].paren

\* C35: a title with specific markers gets the category of its marker
\* listed first, the marker as version label and no remixer, whatever
\* generic parentheticals it has; a title whose parentheticals match no
\* pattern gets category Other with its first parenthetical as version
\* label; a title without parenthetical keeps its full title as base title,
\* with category Original and an empty version label.
C35_FirstPatternWins ==
    run.kind = "parse_track_title" =>
        /\ \A k \in 1..Len(SpecificMarkers) :
            HasMarker(run.title, k)
                /\ (\A earlier \in 1..(k - 1) : ~HasMarker(run.title, earlier)) =>
                    /\ run.parsed.version_type = SpecificMarkers[k].vtype
                    /\ LowerWords(run.parsed.version) = SpecificMarkers[k].words
                    /\ run.parsed.remixer = << >>
                    /\ Len(run.parsed.base_title) = Len(run.title) - 1
        /\ HasParen(run.title)
             /\ (\A i \in 1..Len(run.title) :
                    run.title[i].paren => run.title[i].words = <<"feat", "Y">>) =>
                /\ run.parsed.version_type = "other"
                /\ run.parsed.version = <<"feat", "Y">>
        /\ ~HasParen(run.title) =>
                /\ run.parsed.base_title = run.title
                /\ run.parsed.version_type = "original"
                /\ run.parsed.version = << >>
                /\ run.parsed.remixer = << >>

\* A title with a generic remix parenthetical before the marker Radio Edit.
C35_Witness ==
    /\ run.kind = "parse_track_title"
    /\ run.title = << Paren(<<"X", "remix">>), Paren(<<"Radio", "Edit">>) >>
    /\ run.parsed.version_type = "radio"
    /\ run.parsed.base_title = << Paren(<<"X", "remix">>) >>

\* C36: in a non-dry run the operation log has as many ADD_TRACK entries as
\* tracks were added and as many REMOVE_TRACK entries as tracks were removed.
C36_LogCountsMutations ==
    IsSync /\ ~run.dry_run /\ ~run.raised =>
        /\ OpCount(run.ops, "add_track") = run.added
        /\ OpCount(run.ops, "remove_track") = run.removed

\* The rows approved before the run that the run returned as cache hits.
ApprovedHits ==
    { row \in run.reviewed_before :
        /\ row.destination = run.dest
        /\ row.review_status = "approved"
        /\ \E match \in MatchesOf(row) : match.cache_hit }

TitleOfRow(row) ==
    (CHOOSE t \in Tracks : t.release = row.release /\ t.position = row.position).title

\* C37: a sync that resolves an approved match from the cache logs its
\* ADD_TRACK entry with flagged = false and does not count it in
\* tracks_flagged.
C37_ApprovedNotFlagged ==
    IsSync /\ ~run.raised =>
        /\ \A row \in ApprovedHits :
            \A i \in 1..Len(run.ops) :
                run.ops[i].type = "add_track" /\ run.ops[i].title = TitleOfRow(row)
                    => ~run.ops[i].flagged
        /\ run.flagged
            = Cardinality({ i \in 1..Len(run.ops) :
                              /\ run.ops[i].type = "add_track"
                              /\ run.ops[i].confidence < HighConfidence
                              /\ \A row \in ApprovedHits :
                                    run.ops[i].title # TitleOfRow(row) })

\* The tracks that the run accepted, in any folder.
AcceptedTracks ==
    { t \in Tracks :
        \E rep \in Reports :
            \E match \in rep.matches :
                match.release = t.release /\ match.position = t.position }

\* C38: after a sync run, no record of the missing-track log of the run's
\* destination belongs to a track that the run accepted: when a previously
\* missing track is later accepted, get_missing_tracks no longer returns it.
C38_MissingLogIsLatest ==
    IsSync /\ ~run.raised =>
        \A t \in AcceptedTracks :
            ~\E m \in missing :
                /\ m.release = t.release
                /\ m.title = t.title
                /\ m.destination = run.dest

\* The platform ids scored against the track's own artist and title: the
\* results of its own queries.
OwnCandidates(track, dest) ==
    { StrOf(NativeId(dest, c.n)) :
        c \in SeqRange(search[track].primary) \cup SeqRange(search[track].fallback) }

\* C39: the platform id returned for a track of a release, from the cache or
\* from a search, is one that was scored against that track's own artist and
\* title, also when tracks of the release share a position string.
C39_CacheHitSameTrack ==
    run.kind = "positions" =>
        \A i \in 1..Len(run.log) :
            run.log[i].found
                => StrOf(run.log[i].track_id) \in OwnCandidates(run.tracks[i], run.dest)

\* The rows of a table that belong to another destination than dest.
OtherRows(table, dest) == { row \in table : row.destination # dest }

\* A sync step leaves the rows of the other destination as they are, and what
\* it returns from the cache is a row of its own destination.
IsolatedStep ==
    run'.kind = "sync" =>
        /\ OtherRows(mappings', run'.dest) = OtherRows(mappings, run'.dest)
        /\ OtherRows(matched', run'.dest) = OtherRows(matched, run'.dest)
        /\ \A rep \in SeqRange(run'.reports) :
            \A match \in rep.matches :
                match.cache_hit =>
                    \E row \in matched' :
                        /\ row.destination = run'.dest
                        /\ row.release = match.release
                        /\ row.position = match.position
                        /\ StrOf(row.track_id) = match.track_id

\* C40: a sync for one destination, the cleanup of deleted folders included,
\* never creates, changes or deletes a folder mapping or a cached match of
\* the other destination and never returns a cached match of the other
\* destination.
C40_DestinationsIsolated == [][IsolatedStep]_vars

\* A run removed the mapping of a deleted folder and resolved a track from the
\* cache while the other destination holds a mapping of that folder and
\* cached matches.
C40_Witness ==
    /\ IsSync /\ ~run.dry_run /\ ~run.raised
    /\ \E m \in StaleMappings :
        \E other \in mappings :
            other.destination # run.dest /\ other.folder_id = m.folder_id
    /\ \E row \in matched : row.destination # run.dest
    /\ \E rep \in Reports : \E match \in rep.matches : match.cache_hit

====
